---- MODULE Spec2Model ----
(***************************************************************************)
(* Model of the multi-agent document pipeline:                             *)
(*   - SharedMemoryStore (memory/shared_memory.py): a Redis hash per entry *)
(*     id plus the list "processing_queue";                               *)
(*   - ActionRouter.route_actions (routers/action_router.py);              *)
(*   - JSONAgent.process (agents/json_agent.py), ClassifierAgent,          *)
(*     EmailAgent, PDFAgent (agents/) and the validators (utils/).         *)
(* Spec      : store operations and route_actions called one at a time.    *)
(* SpecConc  : store operations of several clients interleaved at the      *)
(*             granularity of the Redis commands they issue.               *)
(* SpecJson  : JSONAgent.process applied to abstract input texts.          *)
(* SpecClassifier, SpecEmail, SpecPdf : the other agents applied to texts  *)
(*             made of the words their tables look for.                    *)
(* SpecScores: the classifier's confidence and the validators' scores.     *)
(* SpecPdfRouted: PDFAgent.process followed by route_actions on the        *)
(*             recommended actions of its result.                          *)
(***************************************************************************)
EXTENDS Integers, Sequences, FiniteSets, TLC

VARIABLES
    redis,      \* the Redis server: [hash: id -> hash fields, queue: list "processing_queue"]
    now,        \* logical value of datetime.now(); advances with every store_entry
    last,       \* the most recent call and what it returned
    router,     \* the activation of route_actions: loop position, results so far
    pc,         \* SpecConc: per client, the Redis command it issues next
    local,      \* SpecConc: per client, the arguments and local variables of its call
    solo,       \* SpecConc: per id, the record had its own mutations run alone
    contended,  \* SpecConc: ids on which two calls have overlapped
    overlapped, \* SpecConc: ids that had a call in flight while another id had one
    acked,      \* SpecConc: <<id, agent_name>> of add_agent_output calls that returned True
    lastw,      \* SpecConc: per id, the call that issued HSET last
    jin,        \* SpecJson: input_data given to JSONAgent.process
    jout,       \* SpecJson: what JSONAgent.process did with it
    cin,        \* SpecClassifier: input_data given to ClassifierAgent.process
    cout,       \* SpecClassifier: the result of ClassifierAgent.process
    ein,        \* SpecEmail: input_data given to EmailAgent.process
    eout,       \* SpecEmail: the result of the EmailAgent call
    pin,        \* SpecPdf: input_data given to PDFAgent.process
    pout,       \* SpecPdf: the result of PDFAgent.process
    validator   \* SpecScores: a validator object: its errors, warnings and result

storeVars == <<redis, now, last>>
concVars == <<pc, local, solo, contended, overlapped, acked, lastw>>
jsonVars == <<jin, jout>>
agentVars == <<cin, cout, ein, eout, pin, pout, validator>>
vars == <<redis, now, last, router, pc, local, solo, contended, overlapped, acked, lastw, jin, jout,
          cin, cout, ein, eout, pin, pout, validator>>

(***************************************************************************)
(* Bounds of the model.                                                    *)
(***************************************************************************)
\* store_entry calls (each advances the clock and pushes one queue element)
MaxClock == 3
\* longest action list given to route_actions
MaxActions == 2
\* SpecConc: store_entry calls of all clients together
MaxConcStores == 3

Ids == {"e1", "e2"}
AgentNames == {"ClassifierAgent", "JSONAgent"}
Outputs == {"x", "y"}
Clients == {"c1", "c2"}

\* Python's None
None == [none |-> TRUE]
\* Python's None where the model holds strings
NoneStr == "<None>"

(***************************************************************************)
(* models/schemas.py: MemoryEntry                                          *)
(***************************************************************************)
\* MemoryEntry(id=..., input_metadata=..., classification=..., timestamp=ts):
\* the defaults of the remaining fields
MemoryEntry(id, ts) ==
    [id |-> id,
     input_metadata |-> "input_metadata",
     classification |-> "classification",
     agent_outputs |-> <<>>,
     actions_triggered |-> <<>>,
     decision_trace |-> <<>>,
     timestamp |-> ts,
     status |-> "processing"]

\* pydantic validation in MemoryEntry(**entry_dict): status must be a str
validates(entry_dict) == entry_dict.status # NoneStr

\* entry.model_dump(mode='json') then json.dumps: the datetime becomes its
\* ISO-8601 text
json_dumps(entry) == [entry EXCEPT !.timestamp = <<"iso", entry.timestamp>>]

\* json.loads, datetime.fromisoformat, MemoryEntry(**entry_dict)
json_loads(data) == [data EXCEPT !.timestamp = data.timestamp[2]]

(***************************************************************************)
(* memory/shared_memory.py: SharedMemoryStore, as functions of the Redis   *)
(* state st and the clock t.                                               *)
(***************************************************************************)
\* hset under one key for all entries (f"memory" without the id): a write
\* replaces every stored record
hset_shared_key(st, entry, t) ==
    [st EXCEPT !.hash = [i \in DOMAIN st.hash \cup {entry.id} |->
                            [data |-> json_dumps(entry), created_at |-> t, status |-> entry.status]]]

\* HSETNX in place of HSET: an existing record is never overwritten
hsetnx(st, entry, t) ==
    IF entry.id \in DOMAIN st.hash
    THEN st
    ELSE [st EXCEPT !.hash = (entry.id :> [data |-> json_dumps(entry),
                                            created_at |-> t,
                                            status |-> entry.status]) @@ st.hash]

hset(st, entry, t) ==
    [st EXCEPT !.hash = (entry.id :> [data |-> json_dumps(entry),
                                      created_at |-> t,
                                      status |-> entry.status]) @@ st.hash]

lpush(st, id) == [st EXCEPT !.queue = <<id>> \o st.queue]

store_entry(st, entry, t) == lpush(hset(st, entry, t), entry.id)

get_entry(st, entry_id) ==
    IF entry_id \in DOMAIN st.hash
    THEN json_loads(st.hash[entry_id].data)
    ELSE None

\* entry_dict = entry.model_dump(); entry_dict.update(updates)
dict_update(entry, updates) ==
    [f \in DOMAIN entry |-> IF f \in DOMAIN updates THEN updates[f] ELSE entry[f]]

\* update_entry as an upsert: a missing entry is created from the updates
update_entry_upsert(st, entry_id, updates, t) ==
    LET entry == get_entry(st, entry_id)
        base == IF entry = None THEN MemoryEntry(entry_id, t) ELSE entry
        entry_dict == dict_update(base, updates) IN
    IF validates(entry_dict)
    THEN [st |-> store_entry(st, entry_dict, t), ret |-> TRUE]
    ELSE [st |-> st, ret |-> FALSE]

\* returns [st: the Redis state afterwards, ret: True when store_entry ran]
update_entry(st, entry_id, updates, t) ==
    LET entry == get_entry(st, entry_id) IN
    IF entry = None
    THEN [st |-> st, ret |-> FALSE]
    ELSE LET entry_dict == dict_update(entry, updates) IN
         IF validates(entry_dict)
         THEN [st |-> store_entry(st, entry_dict, t), ret |-> TRUE]
         ELSE [st |-> st, ret |-> FALSE]

\* the line appended to decision_trace: f"{agent_name}: {datetime.now().isoformat()}"
trace_line(agent_name, t) == <<agent_name, t>>

\* the words of a decision_trace line: the agent name; the rest is the time
line_words(line) == {line[1]}

\* add_agent_output building agent_outputs and decision_trace anew instead of
\* from the entry it read
agent_output_updates_fresh(entry, agent_name, output, t) ==
    [agent_outputs |-> (agent_name :> output),
     decision_trace |-> <<trace_line(agent_name, t)>>]

\* add_agent_output recording the output without a decision_trace line
agent_output_updates_no_trace(entry, agent_name, output, t) ==
    [agent_outputs |-> (agent_name :> output) @@ entry.agent_outputs,
     decision_trace |-> entry.decision_trace]

\* the updates add_agent_output hands to update_entry, computed from its own read
agent_output_updates(entry, agent_name, output, t) ==
    [agent_outputs |-> (agent_name :> output) @@ entry.agent_outputs,
     decision_trace |-> Append(entry.decision_trace, trace_line(agent_name, t))]

add_agent_output(st, entry_id, agent_name, output, t) ==
    LET entry == get_entry(st, entry_id) IN
    IF entry # None
    THEN update_entry(st, entry_id, agent_output_updates(entry, agent_name, output, t), t)
    ELSE [st |-> st, ret |-> FALSE]

\* add_action_triggered putting the new entry in front of the earlier ones
action_updates_prepend(entry, action) ==
    [actions_triggered |-> <<action>> \o entry.actions_triggered]

\* add_action_triggered leaving out an entry the record already has
action_updates_once(entry, action) ==
    [actions_triggered |->
        IF \E i \in 1..Len(entry.actions_triggered) : entry.actions_triggered[i] = action
        THEN entry.actions_triggered
        ELSE Append(entry.actions_triggered, action)]

\* the updates add_action_triggered hands to update_entry
action_updates(entry, action) ==
    [actions_triggered |-> Append(entry.actions_triggered, action)]

add_action_triggered(st, entry_id, action, t) ==
    LET entry == get_entry(st, entry_id) IN
    IF entry # None
    THEN update_entry(st, entry_id, action_updates(entry, action), t)
    ELSE [st |-> st, ret |-> FALSE]

get_processing_queue(st) == st.queue

\* LREM processing_queue 1 entry_id: drops the first occurrence from the head
RECURSIVE lrem1(_, _)
lrem1(q, id) ==
    IF q = <<>> THEN <<>>
    ELSE IF Head(q) = id THEN Tail(q)
    ELSE <<Head(q)>> \o lrem1(Tail(q), id)

remove_from_queue(st, entry_id) ==
    [st |-> [st EXCEPT !.queue = lrem1(st.queue, entry_id)],
     ret |-> \E i \in 1..Len(st.queue) : st.queue[i] = entry_id]

clear_all(st) == [hash |-> <<>>, queue |-> <<>>]

(***************************************************************************)
(* routers/action_router.py: ActionRouter                                  *)
(***************************************************************************)
\* self.action_handlers, each handler by the "status" of the dict it returns
action_handlers ==
    [escalate_to_manager |-> "escalated",
     create_priority_ticket |-> "ticket_created",
     create_high_priority_ticket |-> "ticket_created",
     notify_team_lead |-> "notified",
     standard_response |-> "response_sent",
     log_and_track |-> "logged",
     log_schema_violation |-> "logged",
     notify_integration_team |-> "notified",
     flag_financial_review |-> "flagged",
     log_data_quality_issue |-> "logged",
     quarantine_for_review |-> "quarantined",
     require_manager_approval |-> "pending_approval",
     route_to_compliance_team |-> "routed",
     notify_data_protection_officer |-> "notified",
     route_to_regulatory_affairs |-> "routed",
     encrypt_and_secure |-> "secured",
     prioritize_processing |-> "prioritized",
     log_error |-> "logged",
     alert_admin |-> "alerted",
     process_normally |-> "processing",
     standard_processing |-> "processing"]

\* action ids the model hands to route_actions: two registered, one not
RoutedActions == {"log_error", "alert_admin", "nonexistent_action"}

\* the action lists of length 0..MaxActions over RoutedActions
ActionLists == UNION {[1..n -> RoutedActions] : n \in 0..MaxActions}

\* f"{action}: {result.get('status', 'completed')}"
action_line(action, status) == <<action, status>>

RouterIdle ==
    [pc |-> "idle", actions |-> <<>>, idx |-> 1, entry_id |-> NoneStr,
     results |-> <<>>, log |-> <<>>]

\* route_actions without its try/except: a handler's exception leaves the loop
route_iteration_no_except(r, st, raised, t) ==
    LET action == r.actions[r.idx] IN
    IF action \in DOMAIN action_handlers /\ ~raised
    THEN LET status == action_handlers[action] IN
         [router |-> [r EXCEPT !.results = (action :> status) @@ r.results,
                               !.log = Append(r.log, [action |-> action, outcome |-> "returned"]),
                               !.idx = r.idx + 1],
          res |-> add_action_triggered(st, r.entry_id, action_line(action, status), t)]
    ELSE IF raised /\ action \in DOMAIN action_handlers
    THEN [router |-> [r EXCEPT !.pc = "raised",
                               !.log = Append(r.log, [action |-> action, outcome |-> "raised"])],
          res |-> [st |-> st, ret |-> FALSE]]
    ELSE [router |-> [r EXCEPT !.results = (action :> "unknown_action") @@ r.results,
                               !.log = Append(r.log, [action |-> action, outcome |-> "no_handler"]),
                               !.idx = r.idx + 1],
          res |-> [st |-> st, ret |-> FALSE]]

\* route_actions indexing self.action_handlers[action] without the membership
\* test: the KeyError of an unregistered action lands in the except clause
route_iteration_no_lookup_check(r, st, raised, t) ==
    LET action == r.actions[r.idx] IN
    IF action \in DOMAIN action_handlers /\ ~raised
    THEN LET status == action_handlers[action] IN
         [router |-> [r EXCEPT !.results = (action :> status) @@ r.results,
                               !.log = Append(r.log, [action |-> action, outcome |-> "returned"]),
                               !.idx = r.idx + 1],
          res |-> add_action_triggered(st, r.entry_id, action_line(action, status), t)]
    ELSE [router |-> [r EXCEPT !.results = (action :> "error") @@ r.results,
                               !.log = Append(r.log, [action |-> action, outcome |-> "raised"]),
                               !.idx = r.idx + 1],
          res |-> [st |-> st, ret |-> FALSE]]

\* One iteration of "for action in actions" in route_actions whose handler,
\* when there is one, raises (raised = TRUE) or returns.  The handlers index
\* entry_id[:8] and call the external API, so a handler can raise; the
\* except clause then records the error outcome and the loop goes on.
\* Returns the router activation and the Redis state after the iteration.
route_iteration(r, st, raised, t) ==
    LET action == r.actions[r.idx] IN
    IF action \in DOMAIN action_handlers
    THEN IF raised
         THEN [router |-> [r EXCEPT !.results = (action :> "error") @@ r.results,
                                    !.log = Append(r.log, [action |-> action, outcome |-> "raised"]),
                                    !.idx = r.idx + 1],
               res |-> [st |-> st, ret |-> FALSE]]
         ELSE LET status == action_handlers[action] IN
              [router |-> [r EXCEPT !.results = (action :> status) @@ r.results,
                                    !.log = Append(r.log, [action |-> action, outcome |-> "returned"]),
                                    !.idx = r.idx + 1],
               res |-> add_action_triggered(st, r.entry_id, action_line(action, status), t)]
    ELSE [router |-> [r EXCEPT !.results = (action :> "unknown_action") @@ r.results,
                               !.log = Append(r.log, [action |-> action, outcome |-> "no_handler"]),
                               !.idx = r.idx + 1],
          res |-> [st |-> st, ret |-> FALSE]]

(***************************************************************************)
(* Spec: the calls made one at a time.                                     *)
(***************************************************************************)
Tick(ret) == IF ret THEN now + 1 ELSE now

ConcIdle ==
    /\ pc = [c \in Clients |-> "idle"]
    /\ local = [c \in Clients |-> None]
    /\ solo = <<>>
    /\ contended = {}
    /\ overlapped = {}
    /\ acked = {}
    /\ lastw = <<>>

JsonIdle ==
    /\ jin = None
    /\ jout = None

AgentsIdle ==
    /\ cin = None
    /\ cout = None
    /\ ein = None
    /\ eout = None
    /\ pin = None
    /\ pout = None
    /\ validator = None

Init ==
    /\ redis = [hash |-> <<>>, queue |-> <<>>]
    /\ now = 0
    /\ last = [op |-> "init"]
    /\ router = RouterIdle
    /\ ConcIdle
    /\ JsonIdle
    /\ AgentsIdle

\* store_entry(entry) for a new document; generate_id gives an unused id
StoreEntryCall(id) ==
    /\ router.pc # "loop"
    /\ now < MaxClock
    /\ id \notin DOMAIN redis.hash
    /\ redis' = store_entry(redis, MemoryEntry(id, now), now)
    /\ now' = now + 1
    /\ last' = [op |-> "store_entry", id |-> id, ret |-> id]
    /\ UNCHANGED <<router, concVars, jsonVars, agentVars>>

GetEntryCall(id) ==
    /\ last' = [op |-> "get_entry", id |-> id, ret |-> get_entry(redis, id)]
    /\ UNCHANGED <<redis, now, router, concVars, jsonVars, agentVars>>

\* the updates the model hands to update_entry: a status change, a status
\* that MemoryEntry rejects, and a reset of agent_outputs
UpdateSets ==
    {[status |-> "success"], [status |-> NoneStr], [agent_outputs |-> <<>>]}

UpdateEntryCall(id, updates) ==
    /\ now < MaxClock
    /\ LET res == update_entry(redis, id, updates, now) IN
       /\ redis' = res.st
       /\ now' = Tick(res.ret)
       /\ last' = [op |-> "update_entry", id |-> id, updates |-> updates, ret |-> res.ret]
    /\ UNCHANGED <<router, concVars, jsonVars, agentVars>>

AddAgentOutputCall(id, agent_name, output) ==
    /\ now < MaxClock
    /\ LET res == add_agent_output(redis, id, agent_name, output, now) IN
       /\ redis' = res.st
       /\ now' = Tick(res.ret)
       /\ last' = [op |-> "add_agent_output", id |-> id, agent_name |-> agent_name,
                   output |-> output, ret |-> res.ret]
    /\ UNCHANGED <<router, concVars, jsonVars, agentVars>>

\* a line as a caller other than the router would pass it
DirectLine == action_line("manual_action", "completed")

AddActionTriggeredCall(id) ==
    /\ now < MaxClock
    /\ LET res == add_action_triggered(redis, id, DirectLine, now) IN
       /\ redis' = res.st
       /\ now' = Tick(res.ret)
       /\ last' = [op |-> "add_action_triggered", id |-> id, action |-> DirectLine,
                   ret |-> res.ret]
    /\ UNCHANGED <<router, concVars, jsonVars, agentVars>>

GetProcessingQueueCall ==
    /\ last' = [op |-> "get_processing_queue", ret |-> get_processing_queue(redis)]
    /\ UNCHANGED <<redis, now, router, concVars, jsonVars, agentVars>>

RemoveFromQueueCall(id) ==
    /\ LET res == remove_from_queue(redis, id) IN
       /\ redis' = res.st
       /\ last' = [op |-> "remove_from_queue", id |-> id, ret |-> res.ret]
    /\ UNCHANGED <<now, router, concVars, jsonVars, agentVars>>

ClearAllCall ==
    /\ redis' = clear_all(redis)
    /\ last' = [op |-> "clear_all", ret |-> TRUE]
    /\ UNCHANGED <<now, router, concVars, jsonVars, agentVars>>

\* route_actions(actions, context, entry_id) is entered: results = {}
RouteBegin(actions, entry_id) ==
    /\ router.pc # "loop"
    /\ now + Len(actions) <= MaxClock
    /\ router' = [pc |-> "loop", actions |-> actions, idx |-> 1, entry_id |-> entry_id,
                  results |-> <<>>, log |-> <<>>]
    /\ last' = [op |-> "route_actions_enter", id |-> entry_id]
    /\ UNCHANGED <<redis, now, concVars, jsonVars, agentVars>>

\* one iteration of the loop
RouteStep(raised) ==
    /\ router.pc = "loop"
    /\ router.idx <= Len(router.actions)
    /\ LET it == route_iteration(router, redis, raised, now) IN
       /\ router' = it.router
       /\ redis' = it.res.st
       /\ now' = Tick(it.res.ret)
    /\ UNCHANGED <<last, concVars, jsonVars, agentVars>>

\* return results
RouteReturn ==
    /\ router.pc = "loop"
    /\ router.idx > Len(router.actions)
    /\ router' = [router EXCEPT !.pc = "returned"]
    /\ last' = [op |-> "route_actions", id |-> router.entry_id, ret |-> router.results]
    /\ UNCHANGED <<redis, now, concVars, jsonVars, agentVars>>

Next ==
    \/ \E id \in Ids : StoreEntryCall(id)
    \/ \E id \in Ids : GetEntryCall(id)
    \/ \E id \in Ids, u \in UpdateSets : UpdateEntryCall(id, u)
    \/ \E id \in Ids, a \in AgentNames, o \in Outputs : AddAgentOutputCall(id, a, o)
    \/ \E id \in Ids : AddActionTriggeredCall(id)
    \/ GetProcessingQueueCall
    \/ \E id \in Ids : RemoveFromQueueCall(id)
    \/ ClearAllCall

Spec == Init /\ [][Next]_vars

(***************************************************************************)
(* SpecRouter: route_actions over the store.                               *)
(***************************************************************************)
NextRouter ==
    \/ \E id \in Ids : StoreEntryCall(id)
    \/ \E actions \in ActionLists, id \in Ids : RouteBegin(actions, id)
    \/ \E raised \in BOOLEAN : RouteStep(raised)
    \/ RouteReturn

SpecRouter == Init /\ [][NextRouter]_vars

(***************************************************************************)
(* SpecConc: the clients' calls interleaved.  A step is one Redis command  *)
(* (HGET, HSET, LPUSH) together with the Python code that follows it up to *)
(* the next command.                                                       *)
(***************************************************************************)
InFlight == {c \in Clients : pc[c] # "idle"}

OnId(id) == {c \in InFlight : local[c].id = id}

Budget == now + Cardinality(InFlight) < MaxConcStores

Call(op, id, agent_name, output, updates, entry) ==
    [op |-> op, id |-> id, agent_name |-> agent_name, output |-> output,
     updates |-> updates, entry |-> entry]

\* a call on id is entered by client c: note which ids it overlaps with
Enter(c, id) ==
    /\ contended' = IF OnId(id) # {} THEN contended \cup {id} ELSE contended
    /\ overlapped' = IF InFlight \ OnId(id) # {}
                     THEN overlapped \cup {id} \cup {local[d].id : d \in InFlight \ OnId(id)}
                     ELSE overlapped

\* the record of id had only the calls on id run, one at a time
SoloApply(id, updates) ==
    IF id \in DOMAIN solo /\ validates(dict_update(solo[id], updates))
    THEN (id :> dict_update(solo[id], updates)) @@ solo
    ELSE solo

\* store_entry(entry) of a new document is entered
CStoreEntry(c, id) ==
    /\ pc[c] = "idle" /\ Budget
    /\ id \notin DOMAIN redis.hash
    /\ \A d \in OnId(id) : local[d].op # "store_entry"
    /\ pc' = [pc EXCEPT ![c] = "hset"]
    /\ local' = [local EXCEPT ![c] = Call("store_entry", id, NoneStr, NoneStr, <<>>, MemoryEntry(id, now))]
    /\ solo' = (id :> MemoryEntry(id, now)) @@ solo
    /\ Enter(c, id)
    /\ UNCHANGED <<redis, now, last, router, acked, lastw, jsonVars, agentVars>>

\* the output a client passes: each client has its own
ClientOutput(c) == IF c = "c1" THEN "x" ELSE "y"

CAddAgentOutput(c, id, agent_name) ==
    /\ pc[c] = "idle" /\ Budget
    /\ pc' = [pc EXCEPT ![c] = "read"]
    /\ local' = [local EXCEPT ![c] = Call("add_agent_output", id, agent_name, ClientOutput(c), <<>>, None)]
    /\ Enter(c, id)
    /\ UNCHANGED <<redis, now, last, router, solo, acked, lastw, jsonVars, agentVars>>

CAddActionTriggered(c, id) ==
    /\ pc[c] = "idle" /\ Budget
    /\ pc' = [pc EXCEPT ![c] = "read"]
    /\ local' = [local EXCEPT ![c] = Call("add_action_triggered", id, NoneStr, NoneStr, <<>>, None)]
    /\ Enter(c, id)
    /\ UNCHANGED <<redis, now, last, router, solo, acked, lastw, jsonVars, agentVars>>

CUpdateEntry(c, id) ==
    /\ pc[c] = "idle" /\ Budget
    /\ pc' = [pc EXCEPT ![c] = "upd_read"]
    /\ local' = [local EXCEPT ![c] = Call("update_entry", id, NoneStr, NoneStr, [status |-> "success"], None)]
    /\ Enter(c, id)
    /\ UNCHANGED <<redis, now, last, router, solo, acked, lastw, jsonVars, agentVars>>

\* entry = self.get_entry(entry_id) of add_agent_output / add_action_triggered,
\* and the updates computed from it
CRead(c) ==
    /\ pc[c] = "read"
    /\ LET id == local[c].id
           entry == get_entry(redis, id)
           upd(e) == IF local[c].op = "add_agent_output"
                     THEN agent_output_updates(e, local[c].agent_name, local[c].output, now)
                     ELSE action_updates(e, DirectLine) IN
       IF entry = None
       THEN /\ pc' = [pc EXCEPT ![c] = "idle"]
            /\ local' = [local EXCEPT ![c] = None]
            /\ solo' = solo
       ELSE /\ pc' = [pc EXCEPT ![c] = "upd_read"]
            /\ local' = [local EXCEPT ![c].updates = upd(entry)]
            /\ solo' = IF id \in DOMAIN solo THEN SoloApply(id, upd(solo[id])) ELSE solo
    /\ UNCHANGED <<redis, now, last, router, contended, overlapped, acked, lastw, jsonVars, agentVars>>

\* entry = self.get_entry(entry_id) of update_entry, entry_dict.update(updates),
\* MemoryEntry(**entry_dict)
CUpdRead(c) ==
    /\ pc[c] = "upd_read"
    /\ LET id == local[c].id
           entry == get_entry(redis, id) IN
       IF entry = None \/ ~validates(dict_update(entry, local[c].updates))
       THEN /\ pc' = [pc EXCEPT ![c] = "idle"]
            /\ local' = [local EXCEPT ![c] = None]
            /\ solo' = solo
       ELSE /\ pc' = [pc EXCEPT ![c] = "hset"]
            /\ local' = [local EXCEPT ![c].entry = dict_update(entry, local[c].updates)]
            /\ solo' = IF local[c].op = "update_entry"
                       THEN SoloApply(id, local[c].updates)
                       ELSE solo
    /\ UNCHANGED <<redis, now, last, router, contended, overlapped, acked, lastw, jsonVars, agentVars>>

\* self.redis_client.hset(...) of store_entry: the whole record is written
CHSet(c) ==
    /\ pc[c] = "hset"
    /\ redis' = hset(redis, local[c].entry, now)
    /\ pc' = [pc EXCEPT ![c] = "lpush"]
    /\ lastw' = (local[c].id :> [op |-> local[c].op, agent_name |-> local[c].agent_name,
                                  output |-> local[c].output]) @@ lastw
    /\ UNCHANGED <<now, last, router, local, solo, contended, overlapped, acked, jsonVars, agentVars>>

\* self.redis_client.lpush(...) of store_entry, and the return of the call
CLPush(c) ==
    /\ pc[c] = "lpush"
    /\ redis' = lpush(redis, local[c].id)
    /\ now' = now + 1
    /\ pc' = [pc EXCEPT ![c] = "idle"]
    /\ local' = [local EXCEPT ![c] = None]
    /\ acked' = IF local[c].op = "add_agent_output"
                THEN acked \cup {<<local[c].id, local[c].agent_name>>}
                ELSE acked
    /\ UNCHANGED <<last, router, solo, contended, overlapped, lastw, jsonVars, agentVars>>

NextConc ==
    \/ \E c \in Clients, id \in Ids : CStoreEntry(c, id)
    \/ \E c \in Clients, id \in Ids, a \in AgentNames : CAddAgentOutput(c, id, a)
    \/ \E c \in Clients, id \in Ids : CAddActionTriggered(c, id)
    \/ \E c \in Clients, id \in Ids : CUpdateEntry(c, id)
    \/ \E c \in Clients : CRead(c)
    \/ \E c \in Clients : CUpdRead(c)
    \/ \E c \in Clients : CHSet(c)
    \/ \E c \in Clients : CLPush(c)

SpecConc == Init /\ [][NextConc]_vars

(***************************************************************************)
(* agents/json_agent.py: JSONAgent.                                        *)
(* A JSON value is [t: Python type, n: number, s: text].  A number is n,   *)
(* or n + 1 when s = "plus1" (values past 2^31 - 1, the largest integer here), *)
(* or an int beyond the range of float when s = "huge".                    *)
(***************************************************************************)
PyNone == [t |-> "NoneType", n |-> 0, s |-> ""]
PyBool(b) == [t |-> "bool", n |-> IF b THEN 1 ELSE 0, s |-> "exact"]
PyInt(n) == [t |-> "int", n |-> n, s |-> "exact"]
PyIntPlus1(n) == [t |-> "int", n |-> n, s |-> "plus1"]
HugeInt == [t |-> "int", n |-> 0, s |-> "huge"]
PyFloatValue(n) == [t |-> "float", n |-> n, s |-> "exact"]
PyStr(s) == [t |-> "str", n |-> 0, s |-> s]
PyList(len) == [t |-> "list", n |-> len, s |-> ""]
PyDict == [t |-> "dict", n |-> 0, s |-> ""]

\* isinstance(v, (int, float)); bool is a subclass of int
IsNumber(v) == v.t \in {"int", "float", "bool"}

\* x < c and x > c for a number x and an integer c
NumLt(x, c) == IF x.s = "huge" THEN FALSE ELSE IF x.s = "plus1" THEN x.n < c - 1 ELSE x.n < c
NumGt(x, c) == IF x.s = "huge" THEN TRUE ELSE IF x.s = "plus1" THEN x.n >= c ELSE x.n > c

\* the texts float() parses, with their values
FloatTexts == [n50 |-> PyInt(50), neg5 |-> PyInt(-5), n100001 |-> PyInt(100001)]
\* the texts datetime.fromisoformat accepts after replace('Z', '+00:00')
IsoTexts == {"2024-01-01T00:00:00Z"}
\* str.lower() of the texts of the model
Lower(s) == IF s = "TEST" THEN "test" ELSE s

\* The parsed input (json_data): a dict has its fields f; a list or a str
\* has the set of names for which Python's "name in json_data" is true.
JsonObject(f) == [t |-> "dict", has |-> DOMAIN f, f |-> f]
JsonArray(elems) == [t |-> "list", has |-> elems, f |-> <<>>]
JsonString(subs) == [t |-> "str", has |-> subs, f |-> <<>>]
JsonScalar(t) == [t |-> t, has |-> {}, f |-> <<>>]

\* input_data: a text json.loads rejects, or a text and the value it parses to
Malformed == [valid |-> FALSE, value |-> JsonScalar("NoneType")]
Parsed(v) == [valid |-> TRUE, value |-> v]

\* self.webhook_schemas: the required fields
webhook_schemas ==
    [payment |-> {"transaction_id", "amount", "currency", "status"},
     user_event |-> {"user_id", "event_type", "timestamp"},
     order |-> {"order_id", "customer_id", "items", "total"},
     system_alert |-> {"alert_type", "severity", "message", "timestamp"}]

AmountThreshold == 100000
UnixMax == 2147483647

\* _detect_webhook_type with the order fields tested before the payment fields
detect_webhook_type_order_first(json_data) ==
    IF json_data.t # "dict" THEN "unknown"
    ELSE IF json_data.has \cap {"order_id", "customer_id", "items"} # {} THEN "order"
    ELSE IF json_data.has \cap {"transaction_id", "payment_id", "amount", "currency"} # {} THEN "payment"
    ELSE IF json_data.has \cap {"user_id", "event_type", "session_id"} # {} THEN "user_event"
    ELSE IF json_data.has \cap {"alert_type", "severity", "message"} # {} THEN "system_alert"
    ELSE "generic"

_detect_webhook_type(json_data) ==
    IF json_data.t # "dict" THEN "unknown"
    ELSE IF json_data.has \cap {"transaction_id", "payment_id", "amount", "currency"} # {} THEN "payment"
    ELSE IF json_data.has \cap {"user_id", "event_type", "session_id"} # {} THEN "user_event"
    ELSE IF json_data.has \cap {"order_id", "customer_id", "items"} # {} THEN "order"
    ELSE IF json_data.has \cap {"alert_type", "severity", "message"} # {} THEN "system_alert"
    ELSE "generic"

\* the errors appended by _validate_field_types
_validate_field_types(json_data) ==
    (IF "amount" \in json_data.has /\ ~IsNumber(json_data.f["amount"])
     THEN {<<"Field 'amount' should be numeric">>} ELSE {})
    \cup
    (IF "timestamp" \in json_data.has
        /\ ~(json_data.f["timestamp"].t = "str" \/ IsNumber(json_data.f["timestamp"]))
     THEN {<<"Field 'timestamp' should be string or number">>} ELSE {})
    \cup
    {<<"ID field should be string or number", field>> :
        field \in {k \in json_data.has :
                      /\ k \in {"transaction_id", "payment_id", "user_id", "session_id",
                                "order_id", "customer_id", "correlation_id"}
                      /\ json_data.f[k].t \notin {"str", "int", "bool"}}}

\* returns [valid, errors]; the errors as a set
_validate_schema(json_data, webhook_type) ==
    IF webhook_type \notin DOMAIN webhook_schemas
    THEN [valid |-> TRUE, errors |-> {}]
    ELSE LET required == webhook_schemas[webhook_type]
             errors ==
                {<<"Missing required field", field>> : field \in required \ json_data.has}
                \cup {<<"Required field is null", field>> :
                         field \in {k \in required \cap json_data.has : json_data.f[k] = PyNone}}
                \cup _validate_field_types(json_data) IN
         [valid |-> errors = {}, errors |-> errors]

\* float(v): [exc, val]
PyFloat(v) ==
    IF IsNumber(v)
    THEN IF v.s = "huge" THEN [exc |-> "OverflowError", val |-> v] ELSE [exc |-> "none", val |-> v]
    ELSE IF v.t = "str"
    THEN IF v.s \in DOMAIN FloatTexts
         THEN [exc |-> "none", val |-> FloatTexts[v.s]]
         ELSE [exc |-> "ValueError", val |-> v]
    ELSE [exc |-> "TypeError", val |-> v]

\* "Check for suspicious amounts": [exc, anomalies]
AmountAnomalies(json_data) ==
    IF json_data.t \notin {"dict", "list", "str"}
    THEN [exc |-> "TypeError", anomalies |-> <<>>]       \* "amount" in json_data
    ELSE IF "amount" \notin json_data.has
    THEN [exc |-> "none", anomalies |-> <<>>]
    ELSE IF json_data.t # "dict"
    THEN [exc |-> "none", anomalies |-> <<"invalid_amount_format">>]   \* TypeError, caught
    ELSE LET amount == PyFloat(json_data.f["amount"]) IN
         IF amount.exc \in {"ValueError", "TypeError"}
         THEN [exc |-> "none", anomalies |-> <<"invalid_amount_format">>]
         ELSE IF amount.exc # "none"
         THEN [exc |-> amount.exc, anomalies |-> <<>>]
         ELSE IF NumLt(amount.val, 0)
         THEN [exc |-> "none", anomalies |-> <<"negative_amount">>]
         ELSE IF NumGt(amount.val, AmountThreshold)
         THEN [exc |-> "none", anomalies |-> <<"unusually_high_amount">>]
         ELSE [exc |-> "none", anomalies |-> <<>>]

\* "Check for unusual timestamps": only ValueError is caught
TimestampAnomalies(json_data) ==
    IF "timestamp" \notin json_data.has
    THEN [exc |-> "none", anomalies |-> <<>>]
    ELSE IF json_data.t # "dict"
    THEN [exc |-> "TypeError", anomalies |-> <<>>]       \* json_data["timestamp"]
    ELSE LET ts == json_data.f["timestamp"] IN
         IF ts.t = "str"
         THEN IF ts.s \in IsoTexts
              THEN [exc |-> "none", anomalies |-> <<>>]
              ELSE [exc |-> "none", anomalies |-> <<"malformed_timestamp">>]
         ELSE IF IsNumber(ts) /\ (NumLt(ts, 0) \/ NumGt(ts, UnixMax))
         THEN [exc |-> "none", anomalies |-> <<"invalid_timestamp_range">>]
         ELSE [exc |-> "none", anomalies |-> <<>>]

\* "Check for empty required arrays"
ItemsAnomalies(json_data, webhook_type) ==
    IF /\ webhook_type = "order"
       /\ "items" \in json_data.has
       /\ json_data.f["items"].t = "list"
       /\ json_data.f["items"].n = 0
    THEN <<"empty_items_array">>
    ELSE <<>>

\* "Check for suspicious field values"
StatusAnomalies(json_data) ==
    IF "status" \notin json_data.has
    THEN [exc |-> "none", anomalies |-> <<>>]
    ELSE IF json_data.t # "dict"
    THEN [exc |-> "TypeError", anomalies |-> <<>>]       \* json_data["status"]
    ELSE IF /\ json_data.f["status"].t = "str"
            /\ Lower(json_data.f["status"].s) \in {"test", "debug", "fake", "dummy"}
    THEN [exc |-> "none", anomalies |-> <<"suspicious_status_value">>]
    ELSE [exc |-> "none", anomalies |-> <<>>]

\* [exc: the exception that leaves the function or "none", anomalies]
_detect_anomalies(json_data, webhook_type) ==
    LET a == AmountAnomalies(json_data) IN
    IF a.exc # "none" THEN a
    ELSE LET ts == TimestampAnomalies(json_data) IN
    IF ts.exc # "none" THEN ts
    ELSE LET st == StatusAnomalies(json_data) IN
    IF st.exc # "none" THEN st
    ELSE [exc |-> "none",
          anomalies |-> a.anomalies \o ts.anomalies
                        \o ItemsAnomalies(json_data, webhook_type) \o st.anomalies]

important_fields ==
    {"user_id", "customer_id", "transaction_id", "order_id",
     "amount", "currency", "status", "timestamp", "event_type"}

\* [exc, fields]: json_data[field] of a list or a str raises TypeError
_extract_fields(json_data) ==
    IF json_data.t = "dict"
    THEN [exc |-> "none", fields |-> [k \in json_data.has \cap important_fields |-> json_data.f[k]]]
    ELSE IF json_data.has \cap (important_fields \cup {"data"}) # {}
    THEN [exc |-> "TypeError", fields |-> <<>>]
    ELSE [exc |-> "none", fields |-> <<>>]

InSeq(x, q) == \E i \in 1..Len(q) : q[i] = x

_recommend_actions(anomalies, schema_valid) ==
    (IF ~schema_valid THEN <<"log_schema_violation", "notify_integration_team">> ELSE <<>>)
    \o
    (IF anomalies # <<>>
     THEN (IF InSeq("negative_amount", anomalies) \/ InSeq("unusually_high_amount", anomalies)
           THEN <<"flag_financial_review">> ELSE <<>>)
          \o (IF InSeq("malformed_timestamp", anomalies)
              THEN <<"log_data_quality_issue">> ELSE <<>>)
          \o (IF Len(anomalies) > 2 THEN <<"quarantine_for_review">> ELSE <<>>)
     ELSE <<"process_normally">>)

Raised(exc) == [raised |-> exc]

\* the result built in the except json.JSONDecodeError branch
ParseErrorResult ==
    [raised |-> "none",
     agent |-> "JSONAgent",
     json_data |-> [webhook_type |-> "invalid", payload |-> <<>>, schema_valid |-> FALSE,
                    validation_errors |-> {<<"JSON Parse Error">>},
                    anomalies |-> <<"malformed_json">>, extracted_fields |-> <<>>],
     recommended_actions |-> <<"log_error", "alert_admin">>,
     parsed_successfully |-> FALSE,
     decision |-> <<"JSON parsing failed">>]

\* the try block after json.loads has returned json_data
ParsedResult(json_data) ==
    LET webhook_type == _detect_webhook_type(json_data)
        schema == _validate_schema(json_data, webhook_type)
        detected == _detect_anomalies(json_data, webhook_type)
        extracted == _extract_fields(json_data) IN
    IF detected.exc # "none" THEN Raised(detected.exc)
    ELSE IF extracted.exc # "none" THEN Raised(extracted.exc)
    ELSE [raised |-> "none",
          agent |-> "JSONAgent",
          json_data |-> [webhook_type |-> webhook_type, payload |-> json_data,
                         schema_valid |-> schema.valid,
                         validation_errors |-> schema.errors,
                         anomalies |-> detected.anomalies,
                         extracted_fields |-> extracted.fields],
          recommended_actions |-> _recommend_actions(detected.anomalies, schema.valid),
          parsed_successfully |-> TRUE,
          decision |-> <<"JSON processed", webhook_type, schema.valid, Len(detected.anomalies)>>]

\* process without its except clause: the JSONDecodeError leaves process
process_without_except(input_data) ==
    IF ~input_data.valid THEN Raised("JSONDecodeError") ELSE ParsedResult(input_data.value)

\* JSONAgent.process up to "return result": the envelope, or the exception
\* that leaves process.  The decision is the text handed to log_decision.
process(input_data) ==
    IF ~input_data.valid THEN ParseErrorResult ELSE ParsedResult(input_data.value)

(***************************************************************************)
(* SpecJson: JSONAgent.process on one input, over the store.               *)
(***************************************************************************)
\* complete payloads of the four schemas, and the empty object
Templates ==
    {[transaction_id |-> PyStr("t1"), amount |-> PyInt(50),
      currency |-> PyStr("USD"), status |-> PyStr("ok")],
     [user_id |-> PyStr("u1"), event_type |-> PyStr("login"),
      timestamp |-> PyStr("2024-01-01T00:00:00Z")],
     [order_id |-> PyStr("o1"), customer_id |-> PyStr("c1"),
      items |-> PyList(1), total |-> PyInt(50)],
     [alert_type |-> PyStr("cpu"), severity |-> PyStr("high"),
      message |-> PyStr("m"), timestamp |-> PyStr("2024-01-01T00:00:00Z")],
     <<>>}

Keep == [op |-> "keep", v |-> PyNone]
Drop == [op |-> "drop", v |-> PyNone]
Put(v) == [op |-> "put", v |-> v]

\* the payload f with key k kept, removed, or set
Change(f, k, c) ==
    IF c.op = "keep" THEN f
    ELSE IF c.op = "drop" THEN [x \in DOMAIN f \ {k} |-> f[x]]
    ELSE [x \in DOMAIN f \cup {k} |-> IF x = k THEN c.v ELSE f[x]]

AmountChoices ==
    {Keep, Drop} \cup {Put(v) : v \in {PyInt(-5), PyInt(AmountThreshold), PyInt(AmountThreshold + 1),
                                       PyStr("n50"), PyStr("abc"), PyNone, HugeInt}}
TimestampChoices ==
    {Keep, Drop} \cup {Put(v) : v \in {PyStr("yesterday"), PyInt(-1), PyInt(UnixMax),
                                       PyIntPlus1(UnixMax), PyNone}}
StatusChoices == {Keep, Drop} \cup {Put(v) : v \in {PyStr("test"), PyStr("TEST"), PyNone}}
ItemsChoices == {Keep, Drop} \cup {Put(v) : v \in {PyList(0), PyStr("abc")}}
UserIdChoices == {Keep} \cup {Put(v) : v \in {PyInt(7), PyFloatValue(7), PyNone}}

JsonObjects ==
    {JsonObject(Change(Change(Change(Change(Change(f, "amount", a), "timestamp", ts),
                                     "status", st), "items", it), "user_id", u)) :
        f \in Templates, a \in AmountChoices, ts \in TimestampChoices,
        st \in StatusChoices, it \in ItemsChoices, u \in UserIdChoices}

\* the names a JSON array holds, or a JSON string has as substrings
ProbeSets == {{}, {"amount"}, {"timestamp"}, {"status"}, {"user_id"}, {"data"}}

JsonInputs ==
    {Malformed}
    \cup {Parsed(JsonScalar(t)) : t \in {"int", "float", "bool", "NoneType"}}
    \cup {Parsed(JsonArray(h)) : h \in ProbeSets}
    \cup {Parsed(JsonString(h)) : h \in ProbeSets}
    \cup {Parsed(v) : v \in JsonObjects}

InitJson ==
    /\ redis = [hash |-> <<>>, queue |-> <<>>]
    /\ now = 0
    /\ last = [op |-> "init"]
    /\ router = RouterIdle
    /\ ConcIdle
    /\ jin \in JsonInputs
    /\ jout = None
    /\ AgentsIdle

\* process(input_data, entry_id, classification): the result is built, then
\* log_decision(entry_id, decision) stores the decision, then it returns
JsonProcess(entry_id) ==
    /\ now < MaxClock
    /\ LET result == process(jin) IN
       /\ jout' = result
       /\ IF result.raised = "none"
          THEN LET res == add_agent_output(redis, entry_id, "JSONAgent", result.decision, now) IN
               /\ redis' = res.st
               /\ now' = Tick(res.ret)
               /\ last' = [op |-> "add_agent_output", id |-> entry_id, agent_name |-> "JSONAgent",
                           output |-> result.decision, ret |-> res.ret]
          ELSE UNCHANGED storeVars
    /\ UNCHANGED <<router, concVars, jin, agentVars>>

\* the document the classifier stored before it called the agent
JsonEntryId == "e1"

NextJson ==
    \/ StoreEntryCall(JsonEntryId)
    \/ \E id \in Ids : JsonProcess(id)

SpecJson == InitJson /\ [][NextJson]_vars

(***************************************************************************)
(* agents/classifier_agent.py: ClassifierAgent.                            *)
(* A text is a sequence of fragments separated by blanks; the tables below *)
(* say which patterns and keywords occur in each fragment.                 *)
(***************************************************************************)
\* longest text, in fragments
MaxFragments == 3

Fragments ==
    {"{", "dear", "from: a@b.co", "data", "invoice", "policy", "complaint"}

\* self.format_patterns, in the order of the dict
FormatOrder == <<"email", "json", "pdf">>

format_patterns ==
    [email |-> {"subject:", "from:", "to:", "@\\w+\\.\\w+", "dear", "regards", "sincerely"},
     json |-> {"^\\s*\\{", ":\\s*[\"\\[\\{]", "\":\\s*\\d+", "webhook", "payload", "data"},
     pdf |-> {"%PDF", "invoice", "total:", "amount:", "policy", "regulation", "compliance"}]

\* self.intent_keywords, in the order of the dict
IntentOrder == <<"rfq", "complaint", "invoice", "regulation", "fraud_risk">>

intent_keywords ==
    [rfq |-> {"request for quote", "rfq", "quotation", "bid", "proposal", "pricing", "estimate"},
     complaint |-> {"complaint", "dissatisfied", "problem", "issue",
                    "unhappy", "angry", "disappointed", "terrible"},
     invoice |-> {"invoice", "bill", "payment", "amount due", "total:", "line item", "tax", "subtotal"},
     regulation |-> {"gdpr", "compliance", "regulation", "policy", "fda", "sox", "hipaa", "regulatory"},
     fraud_risk |-> {"suspicious", "fraud", "anomaly", "unusual",
                     "security", "breach", "unauthorized", "alert"}]

\* the patterns with a match in a fragment (each matches once)
FragmentPatterns ==
    ("{" :> {"^\\s*\\{"}) @@ ("dear" :> {"dear"})
    @@ ("from: a@b.co" :> {"from:", "@\\w+\\.\\w+"})
    @@ ("data" :> {"data"})
    @@ ("invoice" :> {"invoice"}) @@ ("policy" :> {"policy"})
    @@ ("complaint" :> {})

\* the keywords that are substrings of a fragment
FragmentKeywords ==
    ("{" :> {}) @@ ("dear" :> {}) @@ ("from: a@b.co" :> {})
    @@ ("data" :> {})
    @@ ("invoice" :> {"invoice"}) @@ ("policy" :> {"policy"})
    @@ ("complaint" :> {"complaint"})

\* the words of a fragment, for str.split()
FragmentWords == [f \in Fragments |-> IF f = "from: a@b.co" THEN 2 ELSE 1]

\* the matches when format_patterns lacks the pattern of the opening brace
MatchesAtNoBrace(text, i, pattern) ==
    /\ pattern \in FragmentPatterns[text[i]]
    /\ pattern # "^\\s*\\{"

\* the pattern has a match in the fragment at position i; ^ anchors at the start
MatchesAt(text, i, pattern) ==
    /\ pattern \in FragmentPatterns[text[i]]
    /\ pattern = "^\\s*\\{" => i = 1

\* len(re.findall(pattern, input_data, re.IGNORECASE))
findall(pattern, text) == Cardinality({i \in 1..Len(text) : MatchesAt(text, i, pattern)})

\* re.search(pattern, input_data, re.IGNORECASE)
search(pattern, text) == \E i \in 1..Len(text) : MatchesAt(text, i, pattern)

\* keyword.lower() in input_data.lower()
contains(text, keyword) == \E i \in 1..Len(text) : keyword \in FragmentKeywords[text[i]]

RECURSIVE SumOver(_, _)
SumOver(S, f) ==
    IF S = {} THEN 0
    ELSE LET x == CHOOSE y \in S : TRUE IN f[x] + SumOver(S \ {x}, f)

\* format_scores: per format, the matches of all its patterns
format_scores(text) ==
    [fmt \in DOMAIN format_patterns |->
        SumOver(format_patterns[fmt], [p \in format_patterns[fmt] |-> findall(p, text)])]

\* a max in which a later key replaces the best one already on an equal score
RECURSIVE max_by_last(_, _, _, _)
max_by_last(order, scores, i, best) ==
    IF i > Len(order) THEN best
    ELSE max_by_last(order, scores, i + 1,
                     IF scores[order[i]] >= scores[best] THEN order[i] ELSE best)

max_first_last(order, scores) == max_by_last(order, scores, 2, order[1])

\* max(scores, key=scores.get): the keys in dict order, a later key replaces
\* the best one only with a strictly greater score
RECURSIVE max_by(_, _, _, _)
max_by(order, scores, i, best) ==
    IF i > Len(order) THEN best
    ELSE max_by(order, scores, i + 1,
                IF scores[order[i]] > scores[best] THEN order[i] ELSE best)

max_first(order, scores) == max_by(order, scores, 2, order[1])

\* '@' in input_data
HasAt(text) == \E i \in 1..Len(text) : text[i] = "from: a@b.co"

\* 'subject:' in input_data.lower() or 'from:' in input_data.lower()
HasHeader(text) == \E i \in 1..Len(text) : text[i] = "from: a@b.co"

_detect_format(text) ==
    LET scores == format_scores(text)
        best_format == max_first(FormatOrder, scores) IN
    IF scores[best_format] > 0 THEN best_format
    ELSE IF text # <<>> /\ text[1] = "{" THEN "json"
    ELSE IF HasAt(text) /\ HasHeader(text) THEN "email"
    ELSE "pdf"

intent_scores(text) ==
    [intent \in DOMAIN intent_keywords |->
        Cardinality({k \in intent_keywords[intent] : contains(text, k)})]

_detect_intent(text) ==
    LET scores == intent_scores(text)
        best_intent == max_first(IntentOrder, scores) IN
    IF scores[best_intent] > 0 THEN best_intent ELSE "unknown"

\* the confidence as the fraction num / den
_calculate_confidence(text, format_type, business_intent) ==
    LET patterns == IF format_type \in DOMAIN format_patterns
                    THEN format_patterns[format_type] ELSE {}
        keywords == IF business_intent \in DOMAIN intent_keywords
                    THEN intent_keywords[business_intent] ELSE {}
        format_matches == Cardinality({p \in patterns : search(p, text)})
        intent_matches == Cardinality({k \in keywords : contains(text, k)})
        total_format_patterns == IF Cardinality(patterns) > 1 THEN Cardinality(patterns) ELSE 1
        total_intent_keywords == IF Cardinality(keywords) > 1 THEN Cardinality(keywords) ELSE 1 IN
    \* (format_matches / total_format_patterns + intent_matches / total_intent_keywords) / 2
    [num |-> format_matches * total_intent_keywords + intent_matches * total_format_patterns,
     den |-> 2 * total_format_patterns * total_intent_keywords]

_extract_metadata(text, format_type) ==
    [word_count |-> SumOver({i \in 1..Len(text) : TRUE}, [i \in 1..Len(text) |-> FragmentWords[text[i]]]),
     format_type |-> format_type,
     sender_domain |-> IF format_type = "email" /\ \E i \in 1..Len(text) : text[i] = "from: a@b.co"
                       THEN "b.co" ELSE NoneStr,
     webhook_detected |-> format_type = "json" /\ contains(text, "webhook"),
     document_type |-> IF format_type # "pdf" THEN NoneStr
                       ELSE IF \E i \in 1..Len(text) : text[i] = "invoice" THEN "invoice"
                       ELSE IF \E i \in 1..Len(text) : text[i] = "policy" THEN "regulation"
                       ELSE NoneStr]

\* ClassifierAgent.process up to the ClassificationResult; decision is the
\* text handed to log_decision
classify(text) ==
    LET format_type == _detect_format(text)
        business_intent == _detect_intent(text) IN
    [format_type |-> format_type,
     business_intent |-> business_intent,
     confidence_score |-> _calculate_confidence(text, format_type, business_intent),
     metadata |-> _extract_metadata(text, format_type),
     decision |-> <<"Classified as", format_type, "with intent", business_intent>>]

(***************************************************************************)
(* SpecClassifier: ClassifierAgent.process on one text, over the store.    *)
(***************************************************************************)
RECURSIVE SeqsUpTo(_, _)
SeqsUpTo(S, n) ==
    IF n = 0 THEN {<<>>}
    ELSE LET shorter == SeqsUpTo(S, n - 1) IN
         shorter \cup {Append(q, x) : q \in shorter, x \in S}

ClassifierTexts == SeqsUpTo(Fragments, MaxFragments)

InitClassifier ==
    /\ redis = [hash |-> <<>>, queue |-> <<>>]
    /\ now = 0
    /\ last = [op |-> "init"]
    /\ router = RouterIdle
    /\ ConcIdle
    /\ JsonIdle
    /\ cin \in ClassifierTexts
    /\ cout = None
    /\ ein = None /\ eout = None /\ pin = None /\ pout = None /\ validator = None

\* process(input_data, entry_id=entry_id); with entry_id None nothing is logged
ClassifierProcess(entry_id) ==
    /\ now < MaxClock
    /\ LET result == classify(cin) IN
       /\ cout' = result
       /\ IF entry_id # NoneStr
          THEN LET res == add_agent_output(redis, entry_id, "ClassifierAgent", result.decision, now) IN
               /\ redis' = res.st
               /\ now' = Tick(res.ret)
               /\ last' = [op |-> "add_agent_output", id |-> entry_id,
                           agent_name |-> "ClassifierAgent",
                           output |-> result.decision, ret |-> res.ret]
          ELSE /\ last' = [op |-> "classify"]
               /\ UNCHANGED <<redis, now>>
    /\ UNCHANGED <<router, concVars, jsonVars, cin, ein, eout, pin, pout, validator>>

NextClassifier ==
    \/ StoreEntryCall(JsonEntryId)
    \/ \E id \in {JsonEntryId, NoneStr} : ClassifierProcess(id)

SpecClassifier == InitClassifier /\ [][NextClassifier]_vars

(***************************************************************************)
(* utils/validators.py: the error and warning lists of a validator and the *)
(* quality score computed from them.  Scores are in hundredths.            *)
(***************************************************************************)
\* most messages of a kind a validation adds
MaxMessages == 6

ValidatorKinds == {"EmailValidator", "InvoiceValidator", "WebhookValidator"}

\* the penalties of _calculate_quality_score, in hundredths: per error, per warning
Penalties ==
    [EmailValidator |-> [error |-> 20, warning |-> 10],
     InvoiceValidator |-> [error |-> 25, warning |-> 10],
     WebhookValidator |-> [error |-> 30, warning |-> 5]]

\* the score without the floor at 0.0
quality_score_unclamped(kind, errors, warnings) ==
    100 - errors * Penalties[kind].error - warnings * Penalties[kind].warning

_calculate_quality_score(kind, errors, warnings) ==
    LET score == 100 - errors * Penalties[kind].error - warnings * Penalties[kind].warning IN
    IF score > 0 THEN score ELSE 0

\* BaseValidator.__init__: no errors, no warnings
NewValidator(kind) == [kind |-> kind, errors |-> 0, warnings |-> 0, result |-> None]

\* validate(...) begins: self.reset()
ValidatorReset ==
    /\ validator # None
    /\ validator' = NewValidator(validator.kind)
    /\ UNCHANGED <<storeVars, router, concVars, jsonVars, cin, cout, ein, eout, pin, pout>>

\* self.add_error(message) during a validation
ValidatorAddError ==
    /\ validator # None
    /\ validator.result = None
    /\ validator.errors < MaxMessages
    /\ validator' = [validator EXCEPT !.errors = @ + 1]
    /\ UNCHANGED <<storeVars, router, concVars, jsonVars, cin, cout, ein, eout, pin, pout>>

\* self.add_warning(message) during a validation
ValidatorAddWarning ==
    /\ validator # None
    /\ validator.result = None
    /\ validator.warnings < MaxMessages
    /\ validator' = [validator EXCEPT !.warnings = @ + 1]
    /\ UNCHANGED <<storeVars, router, concVars, jsonVars, cin, cout, ein, eout, pin, pout>>

\* return self._build_result()
ValidatorBuildResult ==
    /\ validator # None
    /\ validator.result = None
    /\ validator' = [validator EXCEPT !.result =
                        [is_valid |-> validator.errors = 0,
                         errors |-> validator.errors,
                         warnings |-> validator.warnings,
                         score |-> _calculate_quality_score(validator.kind, validator.errors,
                                                            validator.warnings)]]
    /\ UNCHANGED <<storeVars, router, concVars, jsonVars, cin, cout, ein, eout, pin, pout>>

(***************************************************************************)
(* SpecScores: the scores of a document.  The classifier and the          *)
(* validators share no state: a behaviour follows either a classification  *)
(* of a text or the validations of a validator object.                     *)
(***************************************************************************)
InitScores ==
    /\ redis = [hash |-> <<>>, queue |-> <<>>]
    /\ now = 0
    /\ last = [op |-> "init"]
    /\ router = RouterIdle
    /\ ConcIdle
    /\ JsonIdle
    /\ \/ cin \in ClassifierTexts /\ validator = None
       \/ cin = None /\ validator \in {NewValidator(kind) : kind \in ValidatorKinds}
    /\ cout = None
    /\ ein = None /\ eout = None /\ pin = None /\ pout = None

NextScores ==
    \/ validator = None /\ ClassifierProcess(NoneStr)
    \/ ValidatorReset
    \/ ValidatorAddError
    \/ ValidatorAddWarning
    \/ ValidatorBuildResult

SpecScores == InitScores /\ [][NextScores]_vars

(***************************************************************************)
(* agents/email_agent.py: EmailAgent.                                      *)
(* An email text is a sequence of fragments separated by blanks, none of   *)
(* them a header line; the tables below say which keywords and patterns    *)
(* occur in each fragment and how many words it has.                       *)
(***************************************************************************)
\* longest email text, in fragments
MaxEmailFragments == 2

EmailFragments ==
    {"urgent", "important", "please", "no rush",
     "!!", "by today", "by tomorrow", "by end of day", "by eod",
     "lawsuit", "furious", "manager", "thank you", "thanks", "STOP", "hello"}

\* self.urgency_keywords, in the order of the dict
UrgencyOrder == <<"critical", "high", "medium", "low">>

urgency_keywords ==
    [critical |-> <<"critical", "emergency", "urgent", "asap", "immediate">>,
     high |-> <<"important", "priority", "soon", "quickly", "expedite">>,
     medium |-> <<"please", "when possible", "at your convenience">>,
     low |-> <<"whenever", "no rush", "low priority">>]

\* self.tone_keywords, in the order of the dict
ToneOrder == <<"threatening", "angry", "escalation", "polite", "neutral">>

tone_keywords ==
    [threatening |-> <<"lawsuit", "legal action", "consequences", "unacceptable">>,
     angry |-> <<"furious", "outraged", "disgusted", "terrible", "awful">>,
     escalation |-> <<"manager", "supervisor", "escalate", "complaint">>,
     polite |-> <<"please", "thank you", "appreciate", "kindly">>,
     neutral |-> <<>>]

\* the polite indicators of the fallback of _determine_tone
PoliteIndicators == <<"please", "thank", "appreciate">>

ExclamationPattern == "!{2,}"
DeadlinePattern == "by\\s+(?:today|tomorrow|end of day|eod)"

\* the keywords and indicators that are substrings of a fragment, lowercased
EmailFragmentKeywords ==
    [f \in EmailFragments |->
        CASE f = "urgent" -> {"urgent"}
          [] f = "important" -> {"important"}
          [] f = "please" -> {"please"}
          [] f = "no rush" -> {"no rush"}
          [] f = "lawsuit" -> {"lawsuit"}
          [] f = "furious" -> {"furious"}
          [] f = "manager" -> {"manager"}
          [] f = "thank you" -> {"thank you", "thank"}
          [] f = "thanks" -> {"thank"}
          [] OTHER -> {}]

\* the patterns of _determine_urgency with a match in a fragment
EmailFragmentPatterns ==
    [f \in EmailFragments |->
        CASE f = "!!" -> {ExclamationPattern}
          [] f \in {"by today", "by tomorrow", "by end of day", "by eod"} -> {DeadlinePattern}
          [] OTHER -> {}]

\* len(fragment.split())
EmailFragmentWords ==
    [f \in EmailFragments |->
        CASE f \in {"no rush", "by today", "by tomorrow", "by eod", "thank you"} -> 2
          [] f = "by end of day" -> 4
          [] OTHER -> 1]

\* len(re.findall(r'\b[A-Z]{3,}\b', fragment))
EmailFragmentCaps == [f \in EmailFragments |-> IF f = "STOP" THEN 1 ELSE 0]

\* keyword in text_lower
email_contains(text, keyword) ==
    \E i \in 1..Len(text) : keyword \in EmailFragmentKeywords[text[i]]

\* re.search(pattern, text)
email_search(pattern, text) ==
    \E i \in 1..Len(text) : pattern \in EmailFragmentPatterns[text[i]]

\* any(keyword in text_lower for keyword in keywords)
AnyKeyword(keywords, text) ==
    \E k \in 1..Len(keywords) : email_contains(text, keywords[k])

\* a loop that returns the last tier with a keyword in the text
last_match(order, table, text) ==
    LET hits == {i \in 1..Len(order) : AnyKeyword(table[order[i]], text)} IN
    IF hits = {} THEN NoneStr
    ELSE order[CHOOSE i \in hits : \A j \in hits : j <= i]

\* for tier, keywords in table.items(): for keyword in keywords:
\*     if keyword in text_lower: return tier
first_match(order, table, text) ==
    LET hits == {i \in 1..Len(order) : AnyKeyword(table[order[i]], text)} IN
    IF hits = {} THEN NoneStr
    ELSE order[CHOOSE i \in hits : \A j \in hits : i <= j]

\* _determine_urgency without the checks of punctuation and time constraints
urgency_keywords_only(text) ==
    LET tier == first_match(UrgencyOrder, urgency_keywords, text) IN
    IF tier # NoneStr THEN tier ELSE "medium"

_determine_urgency(text) ==
    LET tier == first_match(UrgencyOrder, urgency_keywords, text) IN
    IF tier # NoneStr THEN tier
    ELSE IF email_search(ExclamationPattern, text) THEN "high"
    ELSE IF email_search(DeadlinePattern, text) THEN "high"
    ELSE "medium"

RECURSIVE SumSeq(_, _, _)
SumSeq(text, f, i) == IF i > Len(text) THEN 0 ELSE f[text[i]] + SumSeq(text, f, i + 1)

caps_words(text) == SumSeq(text, EmailFragmentCaps, 1)
total_words(text) == SumSeq(text, EmailFragmentWords, 1)

\* caps_words / total_words > 0.3
Shouting(text) == total_words(text) > 0 /\ 10 * caps_words(text) > 3 * total_words(text)

\* _determine_tone with the polite indicators checked before the caps
determine_tone_polite_first(text) ==
    LET tier == first_match(ToneOrder, tone_keywords, text) IN
    IF tier # NoneStr THEN tier
    ELSE IF AnyKeyword(PoliteIndicators, text) THEN "polite"
    ELSE IF Shouting(text) THEN "angry"
    ELSE "neutral"

_determine_tone(text) ==
    LET tier == first_match(ToneOrder, tone_keywords, text) IN
    IF tier # NoneStr THEN tier
    ELSE IF Shouting(text) THEN "angry"
    ELSE IF AnyKeyword(PoliteIndicators, text) THEN "polite"
    ELSE "neutral"

\* _recommend_actions with the test of HIGH and ESCALATION taken first
email_recommend_actions_high_first(urgency, tone) ==
    IF urgency = "high" \/ tone = "escalation"
    THEN <<"create_high_priority_ticket", "notify_team_lead">>
    ELSE IF urgency = "critical" \/ tone \in {"threatening", "angry"}
    THEN <<"escalate_to_manager", "create_priority_ticket">>
    ELSE IF tone = "polite" /\ urgency \in {"low", "medium"}
    THEN <<"standard_response", "log_and_track">>
    ELSE <<"standard_processing">>

\* EmailAgent._recommend_actions
email_recommend_actions(urgency, tone) ==
    IF urgency = "critical" \/ tone \in {"threatening", "angry"}
    THEN <<"escalate_to_manager", "create_priority_ticket">>
    ELSE IF urgency = "high" \/ tone = "escalation"
    THEN <<"create_high_priority_ticket", "notify_team_lead">>
    ELSE IF tone = "polite" /\ urgency \in {"low", "medium"}
    THEN <<"standard_response", "log_and_track">>
    ELSE <<"standard_processing">>

\* the keywords of a table found in the text, in the order of the table
RECURSIVE FoundIn(_, _, _, _)
FoundIn(order, table, text, i) ==
    IF i > Len(order) THEN <<>>
    ELSE SelectSeq(table[order[i]], LAMBDA k : email_contains(text, k))
         \o FoundIn(order, table, text, i + 1)

_extract_keywords_found(text) ==
    [urgency |-> FoundIn(UrgencyOrder, urgency_keywords, text, 1),
     tone |-> FoundIn(ToneOrder, tone_keywords, text, 1)]

\* the result of EmailAgent.process; the texts have no header, so sender and
\* subject take their defaults and the body is the text
email_process(text) ==
    LET urgency == _determine_urgency(text)
        tone == _determine_tone(text) IN
    [agent |-> "EmailAgent",
     sender |-> "unknown@example.com",
     subject |-> "No Subject",
     body |-> text,
     urgency |-> urgency,
     tone |-> tone,
     recommended_actions |-> email_recommend_actions(urgency, tone),
     keywords_found |-> _extract_keywords_found(text),
     decision |-> <<"Email processed - Urgency: ", urgency, ", Tone: ", tone>>]

(***************************************************************************)
(* The email agent on its own: a text is drawn at the start and processed  *)
(* for a record that may or may not be stored yet.                         *)
(***************************************************************************)
EmailTexts == SeqsUpTo(EmailFragments, MaxEmailFragments)

InitEmail ==
    /\ redis = [hash |-> <<>>, queue |-> <<>>]
    /\ now = 0
    /\ last = [op |-> "init"]
    /\ router = RouterIdle
    /\ ConcIdle
    /\ JsonIdle
    /\ ein \in EmailTexts
    /\ eout = None
    /\ cin = None /\ cout = None /\ pin = None /\ pout = None /\ validator = None

\* process(input_data, classification, entry_id): the result and the logged decision
EmailProcess(entry_id) ==
    /\ now < MaxClock
    /\ LET result == email_process(ein)
           res == add_agent_output(redis, entry_id, "EmailAgent", result.decision, now) IN
       /\ eout' = result
       /\ redis' = res.st
       /\ now' = Tick(res.ret)
       /\ last' = [op |-> "add_agent_output", id |-> entry_id,
                   agent_name |-> "EmailAgent",
                   output |-> result.decision, ret |-> res.ret]
    /\ UNCHANGED <<router, concVars, jsonVars, cin, cout, ein, pin, pout, validator>>

NextEmail ==
    \/ StoreEntryCall(JsonEntryId)
    \/ EmailProcess(JsonEntryId)

SpecEmail == InitEmail /\ [][NextEmail]_vars

(***************************************************************************)
(* agents/pdf_agent.py: PDFAgent.                                          *)
(* The extracted text is a sequence of fragments separated by blanks; the  *)
(* tables below say which keywords and patterns occur in each fragment.    *)
(* Amounts are in hundredths.  The line items and the general fields of    *)
(* the result feed neither the flags nor the actions and are left out.     *)
(***************************************************************************)
\* longest document text, in fragments
MaxPdfFragments == 2

PdfFragments ==
    {"invoice", "total: 0", "total: 10000", "total: 10000.01", "total: $12,500.00",
     "amount due: 20000", "policy", "gdpr", "fda", "sox", "contract", "report",
     "123-45-6789", "4111111111111111", "urgent", "hello"}

\* total_amount > 10000, in hundredths
HighValueThreshold == 1000000

\* a float total, in hundredths
Amount(hundredths) == [hundredths |-> hundredths]

\* self.compliance_keywords
compliance_keywords ==
    <<"gdpr", "fda", "sox", "hipaa", "pci", "compliance",
      "regulation", "policy", "audit", "security">>

\* self.invoice_patterns["total"], in the order of the list
TotalPatterns == <<"total[:\\s]+\\$?(\\d+(?:,\\d{3})*(?:\\.\\d{2})?)",
                   "amount due[:\\s]+\\$?(\\d+(?:,\\d{3})*(?:\\.\\d{2})?)">>

SsnPattern == "\\b\\d{3}-\\d{2}-\\d{4}\\b"
CreditCardPattern == "\\b\\d{4}[- ]?\\d{4}[- ]?\\d{4}[- ]?\\d{4}\\b"
UrgencyPattern == "urgent|asap|immediate|critical"

\* the keywords that are substrings of a fragment, lowercased
PdfFragmentKeywords ==
    [f \in PdfFragments |->
        CASE f = "invoice" -> {"invoice"}
          [] f = "amount due: 20000" -> {"amount due"}
          [] f = "policy" -> {"policy"}
          [] f = "gdpr" -> {"gdpr"}
          [] f = "fda" -> {"fda"}
          [] f = "sox" -> {"sox"}
          [] f = "contract" -> {"contract"}
          [] f = "report" -> {"report"}
          [] OTHER -> {}]

\* the patterns with a match in a fragment
PdfFragmentPatterns ==
    [f \in PdfFragments |->
        CASE f \in {"total: 0", "total: 10000", "total: 10000.01", "total: $12,500.00"} -> {TotalPatterns[1]}
          [] f = "amount due: 20000" -> {TotalPatterns[2]}
          [] f = "123-45-6789" -> {SsnPattern}
          [] f = "4111111111111111" -> {CreditCardPattern}
          [] f = "urgent" -> {UrgencyPattern}
          [] OTHER -> {}]

\* float(match.group(1).replace(',', '')) of the total matched in a fragment
PdfFragmentTotal ==
    [f \in PdfFragments |->
        CASE f = "total: 0" -> 0
          [] f = "total: 10000" -> 1000000
          [] f = "total: 10000.01" -> 1000001
          [] f = "total: $12,500.00" -> 1250000
          [] f = "amount due: 20000" -> 2000000
          [] OTHER -> 0]

\* keyword in text_lower
pdf_contains(text, keyword) ==
    \E i \in 1..Len(text) : keyword \in PdfFragmentKeywords[text[i]]

\* re.search(pattern, text): the position of the leftmost match, 0 without one
pdf_search(pattern, text) ==
    LET hits == {i \in 1..Len(text) : pattern \in PdfFragmentPatterns[text[i]]} IN
    IF hits = {} THEN 0 ELSE CHOOSE i \in hits : \A j \in hits : i <= j

_determine_document_type(text) ==
    IF \E k \in {"invoice", "bill", "payment", "amount due"} : pdf_contains(text, k) THEN "invoice"
    ELSE IF \E k \in {"policy", "regulation", "compliance", "gdpr", "fda"} : pdf_contains(text, k) THEN "policy"
    ELSE IF \E k \in {"contract", "agreement", "terms"} : pdf_contains(text, k) THEN "contract"
    ELSE IF \E k \in {"report", "analysis", "summary"} : pdf_contains(text, k) THEN "report"
    ELSE "document"

\* the total of _extract_invoice_data: the first pattern with a match decides
_extract_invoice_data(text) ==
    IF pdf_search(TotalPatterns[1], text) # 0
    THEN Amount(PdfFragmentTotal[text[pdf_search(TotalPatterns[1], text)]])
    ELSE IF pdf_search(TotalPatterns[2], text) # 0
    THEN Amount(PdfFragmentTotal[text[pdf_search(TotalPatterns[2], text)]])
    ELSE None

\* the test of the high-value invoice with >= in place of >
high_value_at_least(document_type, total_amount) ==
    /\ document_type = "invoice"
    /\ total_amount # None
    /\ total_amount.hundredths # 0
    /\ total_amount.hundredths >= HighValueThreshold

\* document_type == "invoice" and total_amount and total_amount > 10000
high_value(document_type, total_amount) ==
    /\ document_type = "invoice"
    /\ total_amount # None
    /\ total_amount.hundredths # 0
    /\ total_amount.hundredths > HighValueThreshold

\* BaseAgent.extract_keywords(text, keywords)
extract_keywords(text, keywords) ==
    SelectSeq(keywords, LAMBDA k : pdf_contains(text, k))

RECURSIVE ContainsFlags(_, _)
ContainsFlags(found, i) ==
    IF i > Len(found) THEN <<>>
    ELSE <<"contains_" \o found[i]>> \o ContainsFlags(found, i + 1)

_check_compliance_flags(text, document_type, total_amount) ==
    LET found_compliance == extract_keywords(text, compliance_keywords) IN
    (IF high_value(document_type, total_amount) THEN <<"high_value_invoice">> ELSE <<>>)
    \o (IF found_compliance # <<>>
        THEN <<"compliance_document">> \o ContainsFlags(found_compliance, 1) ELSE <<>>)
    \o (IF pdf_contains(text, "gdpr") THEN <<"gdpr_related">> ELSE <<>>)
    \o (IF pdf_contains(text, "fda") THEN <<"fda_related">> ELSE <<>>)
    \o (IF pdf_contains(text, "sox") THEN <<"sox_compliance">> ELSE <<>>)
    \o (IF pdf_search(SsnPattern, text) # 0 THEN <<"contains_ssn">> ELSE <<>>)
    \o (IF pdf_search(CreditCardPattern, text) # 0 THEN <<"contains_credit_card">> ELSE <<>>)
    \o (IF pdf_search(UrgencyPattern, text) # 0 THEN <<"urgent_document">> ELSE <<>>)

\* _recommend_actions without the actions of a compliance document
pdf_recommend_actions_no_compliance(flags) ==
    LET actions ==
           (IF InSeq("high_value_invoice", flags)
            THEN <<"require_manager_approval", "flag_financial_review">> ELSE <<>>)
        \o (IF InSeq("gdpr_related", flags)
            THEN <<"notify_data_protection_officer", "ensure_gdpr_compliance">> ELSE <<>>)
        \o (IF InSeq("fda_related", flags)
            THEN <<"route_to_regulatory_affairs", "maintain_fda_audit_trail">> ELSE <<>>)
        \o (IF InSeq("contains_ssn", flags) \/ InSeq("contains_credit_card", flags)
            THEN <<"encrypt_and_secure", "limit_access_permissions">> ELSE <<>>)
        \o (IF InSeq("urgent_document", flags)
            THEN <<"prioritize_processing", "notify_relevant_teams">> ELSE <<>>)
    IN IF actions = <<>>
       THEN <<"standard_document_processing", "archive_after_processing">>
       ELSE actions

\* PDFAgent._recommend_actions (total_amount and document_type are not read)
pdf_recommend_actions(flags) ==
    LET actions ==
           (IF InSeq("high_value_invoice", flags)
            THEN <<"require_manager_approval", "flag_financial_review">> ELSE <<>>)
        \o (IF InSeq("compliance_document", flags)
            THEN <<"route_to_compliance_team", "log_regulatory_document">> ELSE <<>>)
        \o (IF InSeq("gdpr_related", flags)
            THEN <<"notify_data_protection_officer", "ensure_gdpr_compliance">> ELSE <<>>)
        \o (IF InSeq("fda_related", flags)
            THEN <<"route_to_regulatory_affairs", "maintain_fda_audit_trail">> ELSE <<>>)
        \o (IF InSeq("contains_ssn", flags) \/ InSeq("contains_credit_card", flags)
            THEN <<"encrypt_and_secure", "limit_access_permissions">> ELSE <<>>)
        \o (IF InSeq("urgent_document", flags)
            THEN <<"prioritize_processing", "notify_relevant_teams">> ELSE <<>>)
    IN IF actions = <<>>
       THEN <<"standard_document_processing", "archive_after_processing">>
       ELSE actions

\* the result of PDFAgent.process
pdf_process(text) ==
    LET document_type == _determine_document_type(text)
        total_amount == IF document_type = "invoice" THEN _extract_invoice_data(text) ELSE None
        flags == _check_compliance_flags(text, document_type, total_amount) IN
    [agent |-> "PDFAgent",
     document_type |-> document_type,
     extracted_text |-> text,
     total_amount |-> total_amount,
     flags |-> flags,
     recommended_actions |-> pdf_recommend_actions(flags),
     decision |-> <<"PDF processed - Type: ", document_type, ", Flags: ", Len(flags),
                    ", Total: ", total_amount>>]

(***************************************************************************)
(* The PDF agent on its own: a text is drawn at the start and processed    *)
(* for a record that may or may not be stored yet.                         *)
(***************************************************************************)
PdfTexts == SeqsUpTo(PdfFragments, MaxPdfFragments)

InitPdf ==
    /\ redis = [hash |-> <<>>, queue |-> <<>>]
    /\ now = 0
    /\ last = [op |-> "init"]
    /\ router = RouterIdle
    /\ ConcIdle
    /\ JsonIdle
    /\ pin \in PdfTexts
    /\ pout = None
    /\ cin = None /\ cout = None /\ ein = None /\ eout = None /\ validator = None

\* process(input_data, classification, entry_id): the result and the logged decision
PdfProcess(entry_id) ==
    /\ now < MaxClock
    /\ LET result == pdf_process(pin)
           res == add_agent_output(redis, entry_id, "PDFAgent", result.decision, now) IN
       /\ pout' = result
       /\ redis' = res.st
       /\ now' = Tick(res.ret)
       /\ last' = [op |-> "add_agent_output", id |-> entry_id,
                   agent_name |-> "PDFAgent",
                   output |-> result.decision, ret |-> res.ret]
    /\ UNCHANGED <<router, concVars, jsonVars, cin, cout, ein, eout, pin, validator>>

NextPdf ==
    \/ StoreEntryCall(JsonEntryId)
    \/ PdfProcess(JsonEntryId)

SpecPdf == InitPdf /\ [][NextPdf]_vars

(***************************************************************************)
(* The PDF agent followed by the router: the recommended actions of the    *)
(* processed document are routed for its record.  The id of a record is a  *)
(* str, so every registered handler returns.                               *)
(***************************************************************************)
\* route_actions(result["recommended_actions"], context, entry_id)
RouteRecommended(entry_id) ==
    /\ router.pc = "idle"
    /\ pout # None
    /\ router' = [pc |-> "loop", actions |-> pout.recommended_actions, idx |-> 1,
                  entry_id |-> entry_id, results |-> <<>>, log |-> <<>>]
    /\ last' = [op |-> "route_actions_enter", id |-> entry_id]
    /\ UNCHANGED <<redis, now, concVars, jsonVars, agentVars>>

NextPdfRouted ==
    \/ StoreEntryCall(JsonEntryId)
    \/ router.pc = "idle" /\ PdfProcess(JsonEntryId)
    \/ RouteRecommended(JsonEntryId)
    \/ RouteStep(FALSE)
    \/ RouteReturn

SpecPdfRouted == InitPdf /\ [][NextPdfRouted]_vars

(***************************************************************************)
(* Helpers of the properties.                                              *)
(***************************************************************************)
IsPrefix(s, t) == Len(s) <= Len(t) /\ SubSeq(t, 1, Len(s)) = s

Count(q, id) == Cardinality({i \in 1..Len(q) : q[i] = id})

FirstIndex(q, id) == CHOOSE i \in 1..Len(q) : q[i] = id /\ \A j \in 1..(i - 1) : q[j] # id

\* the last position of action a among the first n actions of the batch
LastOccurrence(a, n) ==
    CHOOSE i \in 1..n : router.actions[i] = a /\ \A j \in (i + 1)..n : router.actions[j] # a

Processed == Len(router.log)

AppendOps == {"add_agent_output", "add_action_triggered"}

(***************************************************************************)
(* Properties of route_actions (SpecRouter).                               *)
(***************************************************************************)
\* C2: when a handler raises, the outcome recorded for its action is
\* "error", the loop goes on with the later actions, route_actions itself
\* never raises, and on return the mapping has an outcome for every action
\* id listed.
C2_HandlerFailureIsolated ==
    /\ router.pc \in {"idle", "loop", "returned"}
    /\ Processed = router.idx - 1
    /\ \A i \in 1..Processed :
          /\ router.log[i].action = router.actions[i]
          /\ (router.log[i].outcome = "raised" /\ i = LastOccurrence(router.actions[i], Processed))
                => router.results[router.actions[i]] = "error"
    /\ router.pc = "returned" =>
          /\ Processed = Len(router.actions)
          /\ DOMAIN router.results = {router.actions[i] : i \in 1..Len(router.actions)}

\* a batch has returned in which a handler raised and a later action's
\* handler ran and returned
C2_Witness ==
    /\ router.pc = "returned"
    /\ \E i, j \in 1..Processed :
          /\ i < j
          /\ router.log[i].outcome = "raised"
          /\ router.log[j].outcome = "returned"
          /\ router.results[router.actions[i]] = "error"

\* C3: every listed action id without a registered handler gets the outcome
\* "unknown_action" (nothing is thrown for it) and the actions after it are
\* still processed.
C3_UnknownActionReported ==
    /\ \A i \in 1..Processed :
          router.actions[i] \notin DOMAIN action_handlers =>
             /\ router.log[i].outcome = "no_handler"
             /\ router.results[router.actions[i]] = "unknown_action"
    /\ router.pc = "returned" =>
          \A i \in 1..Len(router.actions) :
             router.actions[i] \notin DOMAIN action_handlers =>
                /\ i <= Processed
                /\ router.actions[i] \in DOMAIN router.results

\* a batch has returned whose first action is unregistered and whose second
\* action was handled
C3_Witness ==
    /\ router.pc = "returned"
    /\ Len(router.actions) >= 2
    /\ router.actions[1] \notin DOMAIN action_handlers
    /\ router.results[router.actions[1]] = "unknown_action"
    /\ router.log[2].outcome = "returned"

\* C4: on an existing record, every iteration that invokes a handler adds
\* one entry to the record's actions_triggered, whether the handler returned
\* or raised.
C4_EveryInvocationTraced ==
    [][(/\ router.pc = "loop"
        /\ router'.idx = router.idx + 1
        /\ router.actions[router.idx] \in DOMAIN action_handlers
        /\ router.entry_id \in DOMAIN redis.hash)
          => Len(get_entry(redis', router.entry_id).actions_triggered)
                = Len(get_entry(redis, router.entry_id).actions_triggered) + 1]_vars

(***************************************************************************)
(* Properties of the store under sequential calls (Spec).                  *)
(***************************************************************************)
\* C5: a successful add_agent_output or add_action_triggered keeps all the
\* data already in the record: the outputs of the other agent names, every
\* decision_trace line and every actions_triggered entry; it adds its own
\* agent_name -> output, so two calls with different agent names leave both.
C5_AppendsPreserveRecord ==
    [][(last'.op \in AppendOps /\ last'.ret) =>
        LET old == get_entry(redis, last'.id)
            new == get_entry(redis', last'.id) IN
        /\ old # None /\ new # None
        /\ IsPrefix(old.decision_trace, new.decision_trace)
        /\ IsPrefix(old.actions_triggered, new.actions_triggered)
        /\ \A a \in DOMAIN old.agent_outputs :
              /\ a \in DOMAIN new.agent_outputs
              /\ (last'.op = "add_agent_output" /\ a = last'.agent_name)
                    \/ new.agent_outputs[a] = old.agent_outputs[a]
        /\ last'.op = "add_agent_output" =>
              /\ last'.agent_name \in DOMAIN new.agent_outputs
              /\ new.agent_outputs[last'.agent_name] = last'.output
              /\ Len(new.decision_trace) = Len(old.decision_trace) + 1
        /\ last'.op = "add_action_triggered" =>
              /\ new.actions_triggered = Append(old.actions_triggered, last'.action)
              /\ new.agent_outputs = old.agent_outputs]_vars

\* add_agent_output for a second agent name has returned True and the
\* record holds the outputs of both agents
C5_Witness ==
    /\ last.op = "add_agent_output"
    /\ last.ret
    /\ LET e == get_entry(redis, last.id) IN
       /\ DOMAIN e.agent_outputs = AgentNames
       /\ e.agent_outputs[last.agent_name] = last.output
       /\ \E a \in AgentNames \ {last.agent_name} : e.agent_outputs[a] # last.output

\* C8: get_processing_queue lists ids in arrival order: a record stored
\* earlier appears before a record stored later.
C8_QueueListsArrivalOrder ==
    \A a, b \in DOMAIN redis.hash :
       (/\ Count(get_processing_queue(redis), a) > 0
        /\ Count(get_processing_queue(redis), b) > 0
        /\ get_entry(redis, a).timestamp < get_entry(redis, b).timestamp)
          => FirstIndex(get_processing_queue(redis), a) < FirstIndex(get_processing_queue(redis), b)

\* C9: an id is in the processing queue once per creation of its record:
\* updates and appends do not enqueue it again.
C9_IdQueuedOncePerCreate ==
    \A id \in Ids : Count(get_processing_queue(redis), id) <= 1

\* C10: for an id without a record get_entry returns None, update_entry,
\* add_agent_output and add_action_triggered return False, and the call
\* leaves the store as it was: no record is created, the queue is untouched.
C10_MissingIdIsNotFound ==
    [][(/\ last'.op \in AppendOps \cup {"update_entry", "get_entry"}
        /\ last'.id \notin DOMAIN redis.hash)
          => /\ redis' = redis
             /\ now' = now
             /\ IF last'.op = "get_entry" THEN last'.ret = None ELSE last'.ret = FALSE]_vars

\* add_agent_output on an id without a record has returned False while
\* another record exists, and the id still has no record
C10_Witness ==
    /\ last.op = "add_agent_output"
    /\ last.ret = FALSE
    /\ last.id \notin DOMAIN redis.hash
    /\ last.id \notin {redis.queue[i] : i \in 1..Len(redis.queue)}
    /\ redis.hash # <<>>

(***************************************************************************)
(* Properties of the store under interleaved calls (SpecConc).             *)
(***************************************************************************)
Quiescent(id) == OnId(id) = {}

C7_LastWriterWins ==
    \A id \in DOMAIN lastw :
       /\ id \in DOMAIN redis.hash
       /\ LET e == get_entry(redis, id)
              w == lastw[id] IN
          /\ w.op = "store_entry" => e.agent_outputs = <<>> /\ e.actions_triggered = <<>>
          /\ w.op = "add_agent_output" =>
                /\ w.agent_name \in DOMAIN e.agent_outputs
                /\ e.agent_outputs[w.agent_name] = w.output
                /\ e.decision_trace # <<>>
                /\ e.decision_trace[Len(e.decision_trace)][1] = w.agent_name
          /\ w.op = "add_action_triggered" =>
                /\ e.actions_triggered # <<>>
                /\ e.actions_triggered[Len(e.actions_triggered)] = DirectLine
          /\ w.op = "update_entry" => e.status = "success"

\* the lost update: two add_agent_output calls on one id with different
\* agent names have both returned True, no call on the id is in flight, and
\* the record holds the output of only one of them
C7_LostUpdate ==
    \E id \in DOMAIN redis.hash, a, b \in AgentNames :
       /\ a # b
       /\ <<id, a>> \in acked /\ <<id, b>> \in acked
       /\ Quiescent(id)
       /\ a \notin DOMAIN get_entry(redis, id).agent_outputs
       /\ b \in DOMAIN get_entry(redis, id).agent_outputs

(***************************************************************************)
(* C1: for every input text, process returns a result envelope and raises  *)
(* no exception: a text that is not JSON gives the "invalid" envelope, and *)
(* every text that parses gives an envelope with parsed_successfully.      *)
(***************************************************************************)
C1_ProcessAlwaysReturnsEnvelope ==
    jout # None =>
        /\ jout.raised = "none"
        /\ jout.agent = "JSONAgent"
        /\ jout.parsed_successfully = jin.valid
        /\ (~jin.valid => jout.json_data.webhook_type = "invalid")

(***************************************************************************)
(* C11: across the sequential mutations of a record (the appends, status   *)
(* updates, queue calls and the creation of other records), agent_outputs  *)
(* never loses a key and decision_trace only grows at its end; a           *)
(* successful add_agent_output appends exactly one decision_trace line, so *)
(* the trace is always at least as long as the number of agent_outputs     *)
(* keys.  update_entry handed a whole new agent_outputs or decision_trace, *)
(* and clear_all, replace the fields by definition and are left aside.     *)
(***************************************************************************)
ReplacesFields ==
    \/ last'.op = "clear_all"
    \/ /\ last'.op = "update_entry"
       /\ DOMAIN last'.updates \cap {"agent_outputs", "decision_trace"} # {}

IsReturned(e) == e.outcome = "returned"

\* the lines of the batch so far, in the order of the iterations
BatchLines ==
    LET returned == SelectSeq(router.log, IsReturned) IN
    [i \in 1..Len(returned) |-> action_line(returned[i].action, action_handlers[returned[i].action])]

Suffix(q, n) == SubSeq(q, Len(q) - n + 1, Len(q))

C12_HandlersRunInListedOrder ==
    (router.pc = "loop" \/ (router.pc = "returned" /\ last.op = "route_actions")) =>
       /\ router.idx = Processed + 1
       /\ router.idx <= Len(router.actions) + 1
       /\ \A i \in 1..Processed :
             /\ router.log[i].action = router.actions[i]
             /\ router.actions[i] \in DOMAIN router.results
       /\ router.entry_id \in DOMAIN redis.hash =>
             LET triggered == get_entry(redis, router.entry_id).actions_triggered IN
             /\ Len(triggered) >= Len(BatchLines)
             /\ Suffix(triggered, Len(BatchLines)) = BatchLines

\* a batch of two different registered actions has returned, both handlers
\* returned, and the record ends with their two lines in the listed order
C12_Witness ==
    /\ router.pc = "returned"
    /\ last.op = "route_actions"
    /\ Len(router.actions) = 2
    /\ router.actions[1] # router.actions[2]
    /\ Len(BatchLines) = 2
    /\ router.entry_id \in DOMAIN redis.hash
    /\ LET triggered == get_entry(redis, router.entry_id).actions_triggered IN
       /\ triggered[Len(triggered) - 1] = action_line(router.actions[1], "logged")
       /\ triggered[Len(triggered)] = BatchLines[2]

(***************************************************************************)
(* Properties of the classifier (SpecClassifier).                          *)
(***************************************************************************)
IndexIn(order, x) == CHOOSE i \in 1..Len(order) : order[i] = x

\* C13: whenever some format has a nonzero total match count, _detect_format
\* returns a format with the highest count, and among the formats sharing
\* the highest count the one declared first in the order EMAIL, JSON, PDF.
C13_HighestScoreFirstDeclared ==
    cout # None =>
       LET scores == format_scores(cin)
           chosen == cout.format_type IN
       (\E fmt \in DOMAIN scores : scores[fmt] > 0) =>
          /\ scores[chosen] > 0
          /\ \A fmt \in DOMAIN scores : scores[fmt] <= scores[chosen]
          /\ \A fmt \in DOMAIN scores :
                IndexIn(FormatOrder, fmt) < IndexIn(FormatOrder, chosen)
                   => scores[fmt] < scores[chosen]

\* a text in which the three formats share the same nonzero count was
\* classified as EMAIL
C13_Witness ==
    /\ cout # None
    /\ format_scores(cin)["email"] > 0
    /\ format_scores(cin)["json"] = format_scores(cin)["email"]
    /\ format_scores(cin)["pdf"] = format_scores(cin)["email"]
    /\ cout.format_type = "email"

(***************************************************************************)
(* C14: the classifier's confidence_score lies in [0, 1] for every text,   *)
(* and the quality score a validator returns lies in [0, 1] for any        *)
(* number of errors and warnings.                                          *)
(***************************************************************************)
C14_ScoresInUnitInterval ==
    /\ cout # None =>
          /\ cout.confidence_score.den > 0
          /\ 0 <= cout.confidence_score.num
          /\ cout.confidence_score.num <= cout.confidence_score.den
    /\ (validator # None /\ validator.result # None) =>
          /\ 0 <= validator.result.score
          /\ validator.result.score <= 100

\* a validation with enough errors and warnings for the penalties to exceed
\* the whole score has returned the score 0
C14_Witness ==
    /\ validator # None
    /\ validator.result # None
    /\ validator.errors * Penalties[validator.kind].error
          + validator.warnings * Penalties[validator.kind].warning > 100
    /\ validator.warnings > 0
    /\ validator.result.score = 0

\* C15: a ClassifierAgent.process call for an existing record appends
\* exactly one line to the record's decision_trace, and that line names the
\* chosen format and the chosen intent.
C15_TraceLineNamesFormatAndIntent ==
    [][(/\ last'.op = "add_agent_output"
        /\ last'.agent_name = "ClassifierAgent"
        /\ last'.ret)
          => LET old == get_entry(redis, last'.id).decision_trace
                 new == get_entry(redis', last'.id).decision_trace IN
             /\ Len(new) = Len(old) + 1
             /\ IsPrefix(old, new)
             /\ cout'.format_type \in line_words(new[Len(new)])
             /\ cout'.business_intent \in line_words(new[Len(new)])]_vars

KeywordTiers(text) ==
    {i \in 1..Len(UrgencyOrder) :
        \E k \in 1..Len(urgency_keywords[UrgencyOrder[i]]) :
            email_contains(text, urgency_keywords[UrgencyOrder[i]][k])}

DoubleExclamation(text) == \E i \in 1..Len(text) : text[i] = "!!"
SameDayPhrase(text) == \E i \in 1..Len(text) : text[i] \in {"by today", "by end of day", "by eod"}
DeadlinePhrase(text) == SameDayPhrase(text) \/ \E i \in 1..Len(text) : text[i] = "by tomorrow"

\* C17: for a processed email text with no urgency keyword of any tier, the
\* urgency is HIGH if the text has two or more consecutive exclamation marks
\* or a same-day deadline phrase, and it is MEDIUM only if it has neither.
C17_StructuralTriggersGiveHigh ==
    (eout # None /\ KeywordTiers(ein) = {}) =>
        /\ (DoubleExclamation(ein) \/ SameDayPhrase(ein)) => eout.urgency = "high"
        /\ eout.urgency = "medium" => ~DoubleExclamation(ein) /\ ~SameDayPhrase(ein)

\* a text without keyword and with "!!" was processed and got HIGH
C17_Witness ==
    /\ eout # None
    /\ KeywordTiers(ein) = {}
    /\ DoubleExclamation(ein) /\ ~DeadlinePhrase(ein)
    /\ eout.urgency = "high"

\* the list the priority order of the four rules gives to a pair
PriorityList(urgency, tone) ==
    CASE urgency = "critical" \/ tone = "threatening" \/ tone = "angry" ->
            <<"escalate_to_manager", "create_priority_ticket">>
      [] urgency # "critical" /\ tone \notin {"threatening", "angry"}
         /\ (urgency = "high" \/ tone = "escalation") ->
            <<"create_high_priority_ticket", "notify_team_lead">>
      [] urgency \in {"low", "medium"} /\ tone = "polite" ->
            <<"standard_response", "log_and_track">>
      [] OTHER -> <<"standard_processing">>

Urgencies == {"low", "medium", "high", "critical"}
Tones == {"polite", "neutral", "escalation", "threatening", "angry"}

\* C18: for each of the 20 (urgency, tone) pairs _recommend_actions returns the
\* list of the first rule that applies, in the order escalate, high priority,
\* standard response, standard processing, and the list is never empty; the
\* recommended actions of every processed email are that list for its pair.
C18_ActionsFollowPriorityOrder ==
    /\ \A u \in Urgencies, t \in Tones :
          /\ email_recommend_actions(u, t) = PriorityList(u, t)
          /\ Len(email_recommend_actions(u, t)) > 0
    /\ eout # None =>
          /\ eout.urgency \in Urgencies /\ eout.tone \in Tones
          /\ eout.recommended_actions = PriorityList(eout.urgency, eout.tone)
          /\ eout.recommended_actions # <<>>

\* a polite email of medium urgency was processed and got the standard response
C18_Witness ==
    /\ eout # None
    /\ eout.urgency = "medium" /\ eout.tone = "polite"
    /\ eout.recommended_actions = <<"standard_response", "log_and_track">>

\* C20: when an urgency keyword occurs in a processed email text, the urgency
\* is the first tier in the order CRITICAL, HIGH, MEDIUM, LOW with a keyword
\* in the text, whatever exclamation marks and deadline phrases it has; with
\* no keyword and no structural trigger the urgency is MEDIUM.
C20_FirstKeywordTierWins ==
    eout # None =>
        LET tiers == KeywordTiers(ein) IN
        /\ tiers # {} =>
              eout.urgency = UrgencyOrder[CHOOSE i \in tiers : \A j \in tiers : i <= j]
        /\ (tiers = {} /\ ~DoubleExclamation(ein) /\ ~DeadlinePhrase(ein)) =>
              eout.urgency = "medium"

\* a text with keywords of two tiers was processed and got the earlier tier
C20_Witness ==
    /\ eout # None
    /\ KeywordTiers(ein) = {1, 4}
    /\ eout.urgency = "critical"

(***************************************************************************)
(* Properties of the PDF agent.                                            *)
(***************************************************************************)
\* C19: a processed document has the flag "high_value_invoice" exactly when
\* its type is "invoice" and a total above 10000 was extracted; a total of
\* exactly 10000, a missing total or another type never gives the flag, and
\* a total is extracted only for documents of type "invoice".
C19_HighValueOnlyForInvoiceAboveThreshold ==
    pout # None =>
        /\ InSeq("high_value_invoice", pout.flags) <=>
              /\ pout.document_type = "invoice"
              /\ pout.total_amount # None
              /\ pout.total_amount.hundredths > 1000000
        /\ pout.total_amount # None => pout.document_type = "invoice"

\* an invoice with the total 12,500.00 was processed and flagged
C19_Witness ==
    /\ pout # None
    /\ pout.document_type = "invoice"
    /\ pout.total_amount = Amount(1250000)
    /\ InSeq("high_value_invoice", pout.flags)

\* the tiers, as positions in ToneOrder, with a keyword in the text
ToneTiers(text) ==
    {i \in 1..Len(ToneOrder) :
        \E k \in 1..Len(tone_keywords[ToneOrder[i]]) :
            email_contains(text, tone_keywords[ToneOrder[i]][k])}

\* more than 0.3 of the words of the text are all-caps words of three or more letters
CapsRatioAbove(text) ==
    LET caps == Cardinality({i \in 1..Len(text) : text[i] = "STOP"})
        words == SumSeq(text, EmailFragmentWords, 1) IN
    10 * caps > 3 * words

PoliteFallbackWord(text) ==
    \E i \in 1..Len(text) : text[i] \in {"please", "thank you", "thanks"}

\* C21: the tone of a processed email is the first tier of the keyword table
\* (THREATENING, ANGRY, ESCALATION, POLITE) with a keyword in the text,
\* whatever its caps ratio; with no table keyword it is ANGRY when the caps
\* ratio exceeds 0.3, even with a polite fallback word, else POLITE when a
\* polite fallback word occurs, else NEUTRAL.
C21_CapsAfterTableBeforeFallback ==
    eout # None =>
        LET tiers == ToneTiers(ein) IN
        /\ tiers # {} =>
              eout.tone = ToneOrder[CHOOSE i \in tiers : \A j \in tiers : i <= j]
        /\ (tiers = {} /\ CapsRatioAbove(ein)) => eout.tone = "angry"
        /\ (tiers = {} /\ ~CapsRatioAbove(ein) /\ PoliteFallbackWord(ein)) => eout.tone = "polite"
        /\ (tiers = {} /\ ~CapsRatioAbove(ein) /\ ~PoliteFallbackWord(ein)) => eout.tone = "neutral"

\* a shouted text with a polite fallback word and no table keyword was found ANGRY
C21_Witness ==
    /\ eout # None
    /\ ToneTiers(ein) = {}
    /\ CapsRatioAbove(ein) /\ PoliteFallbackWord(ein)
    /\ eout.tone = "angry"

(***************************************************************************)
(* Properties of the JSON agent on inputs that parse.                      *)
(***************************************************************************)
\* process has returned the result of a parsed input
ReturnedParsed == jout # None /\ jout.raised = "none" /\ jout.parsed_successfully

\* a JSON string or a JSON number, integer or fractional
StringOrNumber(v) == v.t \in {"str", "int", "float", "bool"}

\* the fields of the model's payloads whose name ends in "_id"
IdFieldsOf(payload) ==
    payload.has \cap {"transaction_id", "payment_id", "user_id", "session_id",
                      "order_id", "customer_id", "correlation_id"}

\* C22: for a payload of a recognised webhook type the validation reports a
\* type error exactly for a non-numeric amount, for a timestamp that is
\* neither string nor number, and for a field named *_id whose value is
\* neither string nor number; a string or a number, integer or fractional,
\* in such a field gives no error.
C22_TypeErrorsExactlyForWrongTypes ==
    (ReturnedParsed /\ jout.json_data.webhook_type \in DOMAIN webhook_schemas) =>
        LET payload == jin.value
            errors == jout.json_data.validation_errors IN
        /\ <<"Field 'amount' should be numeric">> \in errors
              <=> ("amount" \in payload.has /\ ~IsNumber(payload.f["amount"]))
        /\ <<"Field 'timestamp' should be string or number">> \in errors
              <=> ("timestamp" \in payload.has /\ ~StringOrNumber(payload.f["timestamp"]))
        /\ \A k \in IdFieldsOf(payload) :
              <<"ID field should be string or number", k>> \in errors
                 <=> ~StringOrNumber(payload.f[k])

TimestampAnomaly(anomalies) ==
    InSeq("malformed_timestamp", anomalies) \/ InSeq("invalid_timestamp_range", anomalies)

\* C23: whenever a parsed payload has a timestamp anomaly, a timestamp string
\* that cannot be parsed or a numeric timestamp outside 0..2147483647, the
\* recommended actions include log_data_quality_issue.
C23_TimestampAnomalyLogsDataQuality ==
    (ReturnedParsed /\ TimestampAnomaly(jout.json_data.anomalies)) =>
        InSeq("log_data_quality_issue", jout.recommended_actions)

\* C24: process_normally is recommended exactly when the payload is
\* schema-valid and has no anomaly, and never together with
\* log_schema_violation, flag_financial_review, log_data_quality_issue or
\* quarantine_for_review.
C24_ProcessNormallyOnlyOtherwise ==
    ReturnedParsed =>
        /\ InSeq("process_normally", jout.recommended_actions)
              <=> (jout.json_data.schema_valid /\ jout.json_data.anomalies = <<>>)
        /\ InSeq("process_normally", jout.recommended_actions) =>
              \A a \in {"log_schema_violation", "flag_financial_review",
                        "log_data_quality_issue", "quarantine_for_review"} :
                  ~InSeq(a, jout.recommended_actions)

\* C28: for every input that parses as JSON the recommended actions of the
\* result are not empty.
C28_RecommendedActionsNonEmpty ==
    ReturnedParsed => jout.recommended_actions # <<>>

AmountAnomalyNames == {"negative_amount", "unusually_high_amount", "invalid_amount_format"}
TimestampAnomalyNames == {"malformed_timestamp", "invalid_timestamp_range"}

\* C29: for every parsed JSON object there are at most three anomalies, at
\* most one of them an amount anomaly and at most one a timestamp anomaly;
\* an amount anomaly and empty_items_array never occur together, and
\* quarantine_for_review is recommended only with exactly three anomalies.
C29_AtMostThreeAnomalies ==
    (ReturnedParsed /\ jin.value.t = "dict") =>
        LET anomalies == jout.json_data.anomalies IN
        /\ Len(anomalies) <= 3
        /\ Cardinality({i \in 1..Len(anomalies) : anomalies[i] \in AmountAnomalyNames}) <= 1
        /\ Cardinality({i \in 1..Len(anomalies) : anomalies[i] \in TimestampAnomalyNames}) <= 1
        /\ ~(InSeq("empty_items_array", anomalies)
             /\ \E a \in AmountAnomalyNames : InSeq(a, anomalies))
        /\ InSeq("quarantine_for_review", jout.recommended_actions) => Len(anomalies) = 3

\* an object with three anomalies, one of them of the amount, was quarantined
C29_Witness ==
    /\ ReturnedParsed /\ jin.value.t = "dict"
    /\ Len(jout.json_data.anomalies) = 3
    /\ \E a \in AmountAnomalyNames : InSeq(a, jout.json_data.anomalies)
    /\ InSeq("quarantine_for_review", jout.recommended_actions)

(***************************************************************************)
(* Properties of route_actions on lists with repeated action ids.          *)
(***************************************************************************)
\* the iterations of the batch that invoked the handler of action a
Invocations(a) ==
    {i \in 1..Len(router.log) :
        router.log[i].action = a /\ router.log[i].outcome \in {"returned", "raised"}}

DefaultPdfActions == <<"standard_document_processing", "archive_after_processing">>

FlagPdfActions ==
    {"require_manager_approval", "flag_financial_review", "route_to_compliance_team",
     "log_regulatory_document", "notify_data_protection_officer", "ensure_gdpr_compliance",
     "route_to_regulatory_affairs", "maintain_fda_audit_trail", "encrypt_and_secure",
     "limit_access_permissions", "prioritize_processing", "notify_relevant_teams"}

\* C25: the recommended actions of a processed document are
\* [standard_document_processing, archive_after_processing] exactly when it
\* has no flag; with any flag there is at least one flag-specific action and
\* neither default action.
C25_DefaultActionsIffNoFlag ==
    pout # None =>
        /\ pout.recommended_actions = DefaultPdfActions <=> pout.flags = <<>>
        /\ pout.flags # <<>> =>
              /\ \E a \in FlagPdfActions : InSeq(a, pout.recommended_actions)
              /\ ~InSeq(DefaultPdfActions[1], pout.recommended_actions)
              /\ ~InSeq(DefaultPdfActions[2], pout.recommended_actions)

\* a document whose flags are only those of the keyword "sox" was processed
\* and got the actions of a compliance document
C25_Witness ==
    /\ pout # None
    /\ pout.flags = <<"compliance_document", "contains_sox", "sox_compliance">>
    /\ pout.recommended_actions = <<"route_to_compliance_team", "log_regulatory_document">>

\* C26: every action id an agent recommends has a registered handler: when
\* the recommended actions of a processed document have been routed, no
\* outcome is "unknown_action" and, on an existing record, every recommended
\* action has its entry in actions_triggered.
C26_RecommendedActionsAreRegistered ==
    (pout # None /\ router.pc = "returned" /\ last.op = "route_actions") =>
        /\ \A i \in 1..Len(router.actions) :
              /\ router.actions[i] \in DOMAIN action_handlers
              /\ router.results[router.actions[i]] # "unknown_action"
        /\ router.entry_id \in DOMAIN redis.hash =>
              Len(BatchLines) = Len(router.actions)

(***************************************************************************)
(* The fallback of _detect_format.                                         *)
(***************************************************************************)
AllScoresZero(text) == \A fmt \in DOMAIN format_patterns : format_scores(text)[fmt] = 0

\* input_data.strip().startswith('{')
StartsWithBrace(text) == text # <<>> /\ text[1] = "{"

\* C27: whenever the three format scores of a classified text are zero the
\* format is PDF: the text neither starts with "{" nor has "@" together with
\* "subject:" or "from:", so the two earlier fallback branches are not taken.
C27_ZeroScoresGivePdf ==
    (cout # None /\ AllScoresZero(cin)) =>
        /\ cout.format_type = "pdf"
        /\ ~StartsWithBrace(cin)
        /\ ~(HasAt(cin) /\ HasHeader(cin))

\* a text with a brace after its first word and no pattern match was classified PDF
C27_Witness ==
    /\ cout # None
    /\ AllScoresZero(cin)
    /\ \E i \in 2..Len(cin) : cin[i] = "{"
    /\ cout.format_type = "pdf"

====
